---- MODULE Spec2Model ----
(***************************************************************************)
(* State-machine model of the thin CMDB core: the reconciler and the       *)
(* governance operations (app/services/reconciliation.py, governance.py),  *)
(* the maker-checker approvals (app/routers/approvals.py,                  *)
(* app/core/security.py) and the sync-job queue                            *)
(* (app/services/sync_jobs.py).                                            *)
(*                                                                         *)
(* Database model: a table is a variable holding the committed rows.  A    *)
(* handler that runs as one transaction with no other statement between    *)
(* its reads and its writes is one action; a handler whose read and write  *)
(* are separate statements with other sessions free to commit in between   *)
(* is split at those statements (READ COMMITTED, row locks held by an      *)
(* uncommitted UPDATE until commit or rollback).                           *)
(* Optional values are sequences: <<>> is None, <<v>> is the value v.      *)
(***************************************************************************)
EXTENDS Integers, Sequences, FiniteSets, TLC

\* ------------------------------------------------------------------ bounds
MaxClock == 2
MaxCIs == 2
MaxCollisions == 4
MaxIdentities == 2
MaxApprovals == 1
MaxRequests == 2
MaxCommits == 2
MaxJobs == 2
MaxWorkers == 2
MaxCallers == 2
MaxMonotonic == 6
MaxThreads == 4

\* ------------------------------------------------------------ input domains
None == <<>>
Some(v) == <<v>>

Max2(a, b) == IF a >= b THEN a ELSE b

source_precedence == <<"manual", "azure", "vcenter", "zabbix", "k8s">>
\* two listed sources and one that source_precedence does not list
Sources == {"manual", "azure", "connector"}

IdentityPool ==
    { [scheme |-> "hostname", value |-> "a"],
      [scheme |-> "hostname", value |-> "b"] }

IdentityLists ==
    UNION { [1..n -> IdentityPool] : n \in 0..MaxIdentities }

\* name, ci_type, owner and attributes of a payload travel together
PayloadProfiles ==
    { [name |-> "old", ci_type |-> "vm", owner |-> None, attributes |-> "attrs-1"],
      [name |-> "new", ci_type |-> "server", owner |-> Some("ops"), attributes |-> "attrs-2"] }

\* a datetime: a wall-clock reading and, when timezone-aware, its UTC offset
Datetimes ==
    { [local |-> t, aware |-> FALSE, offset |-> 0] : t \in 0..MaxClock }
    \cup { [local |-> MaxClock, aware |-> TRUE, offset |-> 1] }

CIPayload(p, ids, ls) ==
    [name |-> p.name, ci_type |-> p.ci_type, owner |-> p.owner,
     attributes |-> p.attributes, identities |-> ids, last_seen_at |-> ls]

\* payloads that all name one entity: every source, profile and timestamp
MergePayloads ==
    { CIPayload(p, <<[scheme |-> "hostname", value |-> "a"]>>, ls) :
        p \in PayloadProfiles, ls \in {None} \cup { Some(d) : d \in Datetimes } }

\* payloads over every identity list, without a timestamp of their own
CollidePayloads ==
    { CIPayload(p, ids, None) :
        p \in { q \in PayloadProfiles : q.name = "new" }, ids \in IdentityLists }

CollideSources == {"manual", "azure"}

ResolutionNotes == {"note", "again"}

\* ------------------------------------------------------------------- state
VARIABLES
    now,            \* the clock read by utcnow()
    cis,            \* table cis: sequence of rows, id = position
    identities,     \* table identities: set of rows
    collisions,     \* table governance_collisions: sequence of rows, id = position
    audit_events,   \* rows appended to audit_events by the latest transaction
    call,           \* the latest request, or the latest step of one
    response,       \* its response (status_code 0: the request is still running)
    settings,       \* the maker-checker settings (config.py)
    approvals,      \* table change_approvals: sequence of rows, id = position
    mutations,      \* per approval: handler transactions committed under its id
    requests,       \* per server thread: the request it is serving
    sync_jobs,      \* table sync_jobs: sequence of rows, id = position
    workers,        \* per sync worker: its position in process_next_sync_job
    telemetry,      \* number of sync.job_failed events recorded (telemetry.py)
    job_events,     \* per job: its integration.job.* rows in audit_events, by type
    sync_state,     \* table sync_state: the NetBox watermark of each endpoint
    monotonic,      \* the clock read by time.monotonic()
    _events,        \* SlidingWindowLimiter._events[key] of one key: a deque
    callers,        \* per thread inside allow(): its position and its now
    allowed,        \* the allow() calls that returned True: their now and the instant of return
    schedule_state, \* table sync_state, the values of sync.schedule.<name>.next_run_at
    limiters,       \* the deques of the global limiter and of the mutating limiter, per key
    bulk,           \* the bulk ingest request in progress: its position, result and events
    outbox,         \* the POSTs made to the upstreams for the latest bulk ingest
    threads,        \* the threads start_sync_worker has created: their loop and position
    _worker_thread, \* the module's handle of the worker thread, 0 for None
    _scheduler_thread,  \* the module's handle of the scheduler thread, 0 for None
    _worker_stop_event  \* the threading.Event both loops test

reconVars == <<cis, identities, collisions>>
approvalVars == <<settings, approvals, mutations, requests>>
queueVars == <<sync_jobs, workers, telemetry, job_events, sync_state>>
limiterVars == <<monotonic, _events, callers, allowed>>
scheduleVars == <<schedule_state>>
publishVars == <<bulk, outbox>>
threadVars == <<threads, _worker_thread, _scheduler_thread, _worker_stop_event>>
serviceVars == <<limiterVars, scheduleVars, limiters, publishVars, threadVars>>
jobVars == <<queueVars, serviceVars>>
vars == <<now, cis, identities, collisions, audit_events, call, response,
          settings, approvals, mutations, requests, sync_jobs, workers, telemetry,
          job_events, sync_state, monotonic, _events, callers, allowed,
          schedule_state, limiters, bulk, outbox, threads, _worker_thread,
          _scheduler_thread, _worker_stop_event>>

\* ------------------------------------------------------------- time (time.py)
normalize_utc_naive(value) ==
    IF value = None THEN None
    ELSE IF ~value[1].aware THEN Some(value[1].local)
    ELSE Some(value[1].local - value[1].offset)

\* ------------------------------------------- the session (database.py, ORM)
\* A session's view: the tables plus the Identity rows added but not yet
\* flushed (SessionLocal has autoflush=False, so queries do not see them).
Session(c, i, g) ==
    [cis |-> c, identities |-> i, collisions |-> g,
     pending |-> <<>>, audit |-> <<>>, failed |-> FALSE]

IdentityRows(rows, scheme, value) ==
    { r \in rows : r.scheme = scheme /\ r.value = value }

\* INSERT of the pending Identity rows in order; uq_identity_scheme_value
\* rejects a row whose (scheme, value) is already present.
RECURSIVE InsertIdentities(_, _)
InsertIdentities(rows, pend) ==
    IF pend = <<>> THEN [ok |-> TRUE, rows |-> rows]
    ELSE IF IdentityRows(rows, Head(pend).scheme, Head(pend).value) # {}
         THEN [ok |-> FALSE, rows |-> rows]
         ELSE InsertIdentities(rows \cup {Head(pend)}, Tail(pend))

Flush(db) ==
    IF db.failed THEN db
    ELSE LET r == InsertIdentities(db.identities, db.pending)
         IN IF r.ok THEN [db EXCEPT !.identities = r.rows, !.pending = <<>>]
            ELSE [db EXCEPT !.failed = TRUE]

append_audit_event(db, event_type, ci_id) ==
    Flush([db EXCEPT !.audit = Append(@, [event_type |-> event_type, ci_id |-> ci_id])])

\* ------------------------------------------------ reconciliation.py
RECURSIVE IndexOf(_, _, _)
IndexOf(seq, x, k) ==
    IF k > Len(seq) THEN Len(seq)
    ELSE IF seq[k] = x THEN k - 1 ELSE IndexOf(seq, x, k + 1)

_source_rank(source) == IndexOf(source_precedence, source, 1)

\* variant in which a tie does not count as precedence
_incoming_has_strict_precedence(existing_source, incoming_source) ==
    _source_rank(incoming_source) < _source_rank(existing_source)

\* lower-or-equal rank wins
_incoming_has_precedence(existing_source, incoming_source) ==
    _source_rank(incoming_source) <= _source_rank(existing_source)

\* 0 stands for "no CI"
_find_ci_by_identity(db, scheme, value) ==
    LET rows == IdentityRows(db.identities, scheme, value)
    IN IF rows = {} THEN 0 ELSE (CHOOSE r \in rows : TRUE).ci_id

HasOpenCollision(rows, scheme, value, existing_ci_id, incoming_ci_id) ==
    \E k \in 1..Len(rows) :
        /\ rows[k].scheme = scheme
        /\ rows[k].value = value
        /\ rows[k].existing_ci_id = existing_ci_id
        /\ rows[k].incoming_ci_id = incoming_ci_id
        /\ rows[k].status = "OPEN"

_create_collision(db, scheme, value, existing_ci_id, incoming_ci_id) ==
    IF HasOpenCollision(db.collisions, scheme, value, existing_ci_id, incoming_ci_id)
    THEN db
    ELSE append_audit_event(
            [db EXCEPT !.collisions = Append(@,
                [scheme |-> scheme, value |-> value,
                 existing_ci_id |-> existing_ci_id, incoming_ci_id |-> incoming_ci_id,
                 status |-> "OPEN", resolution_note |-> None, resolved_at |-> None])],
            "governance.collision.detected", existing_ci_id)

\* EnsureIdentity with the bug of moving a matched identity to the incoming CI
EnsureIdentityRebind(st, ci_id, ident) ==
    LET match == IdentityRows(st.db.identities, ident.scheme, ident.value)
    IN IF match = {}
       THEN [st EXCEPT !.db.pending =
                Append(@, [ci_id |-> ci_id, scheme |-> ident.scheme, value |-> ident.value])]
       ELSE [st EXCEPT !.db.identities =
                (@ \ match) \cup {[ci_id |-> ci_id, scheme |-> ident.scheme, value |-> ident.value]}]

\* one iteration of the loop of _ensure_identities; st = [db, collisions]
EnsureIdentity(st, ci_id, ident) ==
    LET match == IdentityRows(st.db.identities, ident.scheme, ident.value)
    IN IF match = {}
       THEN [st EXCEPT !.db.pending =
                Append(@, [ci_id |-> ci_id, scheme |-> ident.scheme, value |-> ident.value])]
       ELSE IF (CHOOSE r \in match : TRUE).ci_id # ci_id
            THEN [db |-> _create_collision(st.db, ident.scheme, ident.value,
                                           (CHOOSE r \in match : TRUE).ci_id, ci_id),
                  collisions |-> st.collisions + 1]
            ELSE st

RECURSIVE EnsureFrom(_, _, _, _)
EnsureFrom(st, ci_id, idents, k) ==
    IF k > Len(idents) THEN st
    ELSE EnsureFrom(EnsureIdentity(st, ci_id, idents[k]), ci_id, idents, k + 1)

_ensure_identities(db, ci_id, payload) ==
    EnsureFrom([db |-> db, collisions |-> 0], ci_id, payload.identities, 1)

\* the ordered list of distinct CIs the payload's identities are bound to
RECURSIVE MatchedFrom(_, _, _, _)
MatchedFrom(db, idents, k, acc) ==
    IF k > Len(idents) THEN acc
    ELSE LET m == _find_ci_by_identity(db, idents[k].scheme, idents[k].value)
         IN IF m # 0 /\ \A j \in 1..Len(acc) : acc[j] # m
            THEN MatchedFrom(db, idents, k + 1, Append(acc, m))
            ELSE MatchedFrom(db, idents, k + 1, acc)

\* variant that lists the matches from the last identity to the first
MatchedCisReversed(db, payload) ==
    LET m == MatchedFrom(db, payload.identities, 1, <<>>)
    IN [i \in 1..Len(m) |-> m[Len(m) + 1 - i]]

\* matched_cis: the matches in payload order, matched_cis[0] is the survivor
MatchedCis(db, payload) == MatchedFrom(db, payload.identities, 1, <<>>)

\* the nested loops over matched_cis[1:] and payload.identities, flattened:
\* step n handles conflict 2 + n \div L and identity 1 + n % L
RECURSIVE MultiMatchFrom(_, _, _, _)
MultiMatchFrom(st, matched, idents, n) ==
    IF n >= (Len(matched) - 1) * Len(idents) THEN st
    ELSE LET conflict == matched[2 + (n \div Len(idents))]
             ident == idents[1 + (n % Len(idents))]
             ci_id == matched[1]
         IN IF _find_ci_by_identity(st.db, ident.scheme, ident.value) # 0 /\ conflict # ci_id
            THEN MultiMatchFrom(
                    [db |-> _create_collision(st.db, ident.scheme, ident.value, ci_id, conflict),
                     collisions |-> st.collisions + 1],
                    matched, idents, n + 1)
            ELSE MultiMatchFrom(st, matched, idents, n + 1)

OwnerMissing(db, ci_id) ==
    IF db.cis[ci_id].owner = None
    THEN append_audit_event(db, "governance.owner.missing", ci_id)
    ELSE db

\* the timestamp written to last_seen_at (reconciliation.py line 173)
LastSeenWritten(existing, incoming) == incoming

reconcile_ci_payload(db, source, payload, utc_now) ==
    LET given == normalize_utc_naive(payload.last_seen_at)
        ts == IF given = None THEN utc_now ELSE given[1]
        matched == MatchedCis(db, payload)
    IN IF matched = <<>>
       THEN LET ci_id == Len(db.cis) + 1
                d1 == [db EXCEPT !.cis = Append(@,
                          [name |-> payload.name, ci_type |-> payload.ci_type,
                           source |-> source, owner |-> payload.owner,
                           status |-> "ACTIVE", attributes |-> payload.attributes,
                           last_seen_at |-> ts])]
                s2 == _ensure_identities(d1, ci_id, payload)
                d3 == append_audit_event(s2.db, "ci.created", ci_id)
            IN [db |-> OwnerMissing(d3, ci_id), ci |-> ci_id, created |-> TRUE,
                collisions |-> s2.collisions]
       ELSE LET ci_id == matched[1]
                s1 == MultiMatchFrom([db |-> db, collisions |-> 0], matched,
                                     payload.identities, 0)
                d2 == IF _incoming_has_precedence(s1.db.cis[ci_id].source, source)
                      THEN append_audit_event(
                              [s1.db EXCEPT
                                  ![ "cis" ][ci_id].name = payload.name,
                                  ![ "cis" ][ci_id].ci_type = payload.ci_type,
                                  ![ "cis" ][ci_id].owner = payload.owner,
                                  ![ "cis" ][ci_id].attributes = payload.attributes,
                                  ![ "cis" ][ci_id].source = source],
                              "ci.updated", ci_id)
                      ELSE append_audit_event(s1.db, "ci.reconcile.skipped_by_precedence", ci_id)
                d3 == [d2 EXCEPT ![ "cis" ][ci_id].last_seen_at =
                          LastSeenWritten(d2.cis[ci_id].last_seen_at, ts)]
                s4 == _ensure_identities(d3, ci_id, payload)
            IN [db |-> OwnerMissing(s4.db, ci_id), ci |-> ci_id, created |-> FALSE,
                collisions |-> s1.collisions + s4.collisions]

\* --------------------------------------------- maker-checker (security.py)
\* Paths and queries are sequences of characters.
RECURSIVE lstrip(_)
lstrip(s) ==
    IF s # <<>> /\ Head(s) = " " THEN lstrip(Tail(s)) ELSE s

RECURSIVE rstrip(_)
rstrip(s) ==
    IF s # <<>> /\ s[Len(s)] = " " THEN rstrip(SubSeq(s, 1, Len(s) - 1)) ELSE s

strip(s) == rstrip(lstrip(s))

startswith(s, prefix) ==
    Len(s) >= Len(prefix) /\ SubSeq(s, 1, Len(prefix)) = prefix

ApprovalsPrefix == <<"/", "a", "p", "p", "r", "o", "v", "a", "l", "s">>

upper(method) ==
    CASE method = "post" -> "POST"
      [] method = "delete" -> "DELETE"
      [] OTHER -> method

canonical_request_path(request) ==
    IF request.query # <<>> THEN request.path \o <<"?">> \o request.query
    ELSE request.path

\* json.loads on the bodies of RequestBodies: the parsed object, or a failure
json_loads(body_bytes) ==
    CASE body_bytes = "{\"a\":1,\"b\":2}" -> [ok |-> TRUE, value |-> [a |-> 1, b |-> 2]]
      [] body_bytes = "{\"b\": 2, \"a\": 1}" -> [ok |-> TRUE, value |-> [a |-> 1, b |-> 2]]
      [] body_bytes = "{\"a\":2}" -> [ok |-> TRUE, value |-> [a |-> 2]]
      [] body_bytes = "{ \"a\" : 2 }" -> [ok |-> TRUE, value |-> [a |-> 2]]
      [] body_bytes = "null" -> [ok |-> TRUE, value |-> None]
      [] body_bytes = " null" -> [ok |-> TRUE, value |-> None]
      [] OTHER -> [ok |-> FALSE]

\* json.dumps(payload, separators=(",", ":"), sort_keys=True)
_normalize_json_bytes(payload) ==
    CASE payload = [a |-> 1, b |-> 2] -> "{\"a\":1,\"b\":2}"
      [] payload = [a |-> 2] -> "{\"a\":2}"
      [] payload = None -> "null"

\* hashlib.sha256: taken to be collision-free
sha256(bytes) == <<"sha256", bytes>>

is_json_content_type(content_type) ==
    content_type \in {Some("application/json"), Some("Application/JSON; charset=utf-8")}

canonical_payload_hash(body_bytes, content_type) ==
    IF body_bytes # "" /\ is_json_content_type(content_type)
    THEN LET parsed == json_loads(body_bytes)
         IN IF parsed.ok THEN sha256(_normalize_json_bytes(parsed.value))
            ELSE sha256(body_bytes)
    ELSE sha256(body_bytes)

canonical_payload_hash_from_object(payload) ==
    IF payload = None THEN sha256("")
    ELSE sha256(_normalize_json_bytes(payload[1]))

\* the checks without the comparison of expires_at with the clock
GateRefusesUnexpiring(request, rows, utc_now) ==
    LET id == request.approval_id
    IN IF id = 0 THEN 428
       ELSE IF id > Len(rows) THEN 404
       ELSE IF rows[id].status # "APPROVED" THEN 409
       ELSE IF settings.maker_checker_bind_requester
               /\ rows[id].requested_by # request.principal THEN 403
       ELSE IF rows[id].method # upper(request.method) THEN 409
       ELSE IF rows[id].request_path # canonical_request_path(request) THEN 409
       ELSE IF rows[id].payload_hash
                   # canonical_payload_hash(request.body, request.content_type) THEN 409
       ELSE 0

\* the checks of _enforce_maker_checker, lines 411-445: the status code
\* raised, or 0 when the request passes
GateRefuses(request, rows, utc_now) ==
    LET id == request.approval_id
    IN IF id = 0 THEN 428
       ELSE IF id > Len(rows) THEN 404
       ELSE IF rows[id].status # "APPROVED" THEN 409
       ELSE IF rows[id].expires_at <= utc_now THEN 409
       ELSE IF settings.maker_checker_bind_requester
               /\ rows[id].requested_by # request.principal THEN 403
       ELSE IF rows[id].method # upper(request.method) THEN 409
       ELSE IF rows[id].request_path # canonical_request_path(request) THEN 409
       ELSE IF rows[id].payload_hash
                   # canonical_payload_hash(request.body, request.content_type) THEN 409
       ELSE 0

_enforce_maker_checker(request, rows, utc_now) ==
    IF ~settings.maker_checker_enabled THEN [status_code |-> 0, approval_id |-> 0]
    ELSE IF startswith(request.path, ApprovalsPrefix)
         THEN [status_code |-> 0, approval_id |-> 0]
    ELSE LET code == GateRefuses(request, rows, utc_now)
         IN [status_code |-> code,
             approval_id |-> IF code = 0 THEN request.approval_id ELSE 0]

\* ------------------------------------------ approvals (services/approvals.py)
ApprovalCleaner == "system:approval-cleaner"

\* variant that spares an approval at the instant it expires
ExpiredPendingLater(rows, utc_now) ==
    { k \in 1..Len(rows) : rows[k].status = "PENDING" /\ rows[k].expires_at < utc_now }

ExpiredPending(rows, utc_now) ==
    { k \in 1..Len(rows) : rows[k].status = "PENDING" /\ rows[k].expires_at <= utc_now }

expire_pending_approvals(rows, utc_now) ==
    LET expired == ExpiredPending(rows, utc_now)
    IN [rows |-> [k \in 1..Len(rows) |->
                     IF k \in expired
                     THEN [rows[k] EXCEPT !.status = "REJECTED",
                                          !.decided_by = Some(ApprovalCleaner)]
                     ELSE rows[k]],
        expired_count |-> Cardinality(expired),
        audit |-> IF expired # {}
                  THEN <<[event_type |-> "approval.expired", ci_id |-> 0,
                          expired_count |-> Cardinality(expired)]>>
                  ELSE <<>>]

\* --------------------------------------------- approvals (routers/approvals.py)
_normalize_request_path(path, query) ==
    LET normalized_path == strip(path)
        stripped_query == IF query = None THEN <<>> ELSE strip(query[1])
        normalized_query == IF startswith(stripped_query, <<"?">>)
                            THEN Tail(stripped_query) ELSE stripped_query
    IN IF ~startswith(normalized_path, <<"/">>) THEN [status_code |-> 400]
       ELSE IF startswith(normalized_path, ApprovalsPrefix) THEN [status_code |-> 400]
       ELSE IF normalized_query = <<>>
            THEN [status_code |-> 0, value |-> normalized_path]
       ELSE [status_code |-> 0, value |-> normalized_path \o <<"?">> \o normalized_query]

ChangeApproval(principal, request_body, request_path, utc_now) ==
    [method |-> upper(request_body.method),
     request_path |-> request_path,
     payload_hash |-> canonical_payload_hash_from_object(request_body.payload),
     requested_by |-> principal,
     status |-> "PENDING",
     decided_by |-> None,
     expires_at |-> utc_now + request_body.ttl_minutes,
     consumed_at |-> None]

\* ------------------------------------------------------------------- Init
ReconInit ==
    /\ now = 0
    /\ cis = <<>>
    /\ identities = {}
    /\ collisions = <<>>
    /\ audit_events = <<>>
    /\ call = [op |-> "none"]
    /\ response = [status_code |-> 0]
    /\ approvals = <<>>
    /\ mutations = <<>>
    /\ requests = [r \in 1..MaxRequests |-> [kind |-> "idle"]]
    /\ sync_jobs = <<>>
    /\ workers = [w \in 1..MaxWorkers |-> [pc |-> "idle"]]
    /\ telemetry = 0
    /\ job_events = <<>>
    /\ sync_state = [devices |-> None, vms |-> None]
    /\ monotonic = 0
    /\ _events = <<>>
    /\ callers = [c \in 1..MaxCallers |-> [pc |-> "idle"]]
    /\ allowed = {}
    /\ schedule_state = [name \in {"netbox-import", "backstage-sync"} |-> None]
    /\ limiters = [global |-> [key \in {"ip:client", "token:viewer", "token:operator"} |-> <<>>],
                   mutating |-> [key \in {"oidc:alice"} |-> <<>>]]
    /\ bulk = [pc |-> "idle"]
    /\ outbox = <<>>
    /\ threads = [t \in 1..MaxThreads |-> [target |-> "none", pc |-> "none"]]
    /\ _worker_thread = 0
    /\ _scheduler_thread = 0
    /\ _worker_stop_event = FALSE

\* the defaults of Settings (config.py)
DefaultSettings ==
    [maker_checker_enabled |-> FALSE, maker_checker_bind_requester |-> TRUE,
     sync_job_max_attempts |-> 3, sync_job_retry_base_seconds |-> 5,
     lifecycle_staging_days |-> 30, lifecycle_review_days |-> 90,
     lifecycle_retired_days |-> 120, global_rate_limit_per_minute |-> 600,
     mutating_rate_limit_per_minute |-> 120,
     mutating_rate_limit_ingest_per_minute |-> 60,
     mutating_rate_limit_integrations_per_minute |-> 60,
     mutating_rate_limit_relationships_per_minute |-> 90,
     mutating_rate_limit_cis_per_minute |-> 90,
     mutating_rate_limit_governance_per_minute |-> 60,
     mutating_rate_limit_lifecycle_per_minute |-> 30,
     mutating_rate_limit_approvals_per_minute |-> 60,
     mutating_payload_limit_default_bytes |-> 65536,
     mutating_payload_limit_ingest_bytes |-> 1048576,
     mutating_payload_limit_integrations_bytes |-> 8192,
     mutating_payload_limit_relationships_bytes |-> 16384,
     mutating_payload_limit_cis_bytes |-> 16384,
     mutating_payload_limit_governance_bytes |-> 8192,
     mutating_payload_limit_lifecycle_bytes |-> 4096,
     mutating_payload_limit_approvals_bytes |-> 65536,
     sync_scheduler_enabled |-> TRUE,
     sync_schedule_netbox_import_limit |-> 500,
     sync_schedule_backstage_sync_limit |-> 500,
     sync_schedule_netbox_import_enabled |-> FALSE,
     sync_schedule_netbox_import_interval_seconds |-> 900,
     sync_schedule_backstage_sync_enabled |-> FALSE,
     sync_schedule_backstage_sync_interval_seconds |-> 900,
     netbox_api_url |-> "", netbox_api_token |-> "",
     netbox_sync_enabled |-> FALSE, netbox_sync_url |-> "", netbox_sync_token |-> "",
     backstage_sync_enabled |-> FALSE, backstage_sync_url |-> "",
     backstage_sync_token |-> "", backstage_sync_secret |-> ""]

Init ==
    /\ ReconInit
    /\ settings = DefaultSettings

\* the gate is on, with or without requester binding
GateInit ==
    /\ ReconInit
    /\ settings \in { [DefaultSettings EXCEPT !.maker_checker_enabled = TRUE,
                                               !.maker_checker_bind_requester = b] :
                         b \in BOOLEAN }

RaceInit ==
    /\ ReconInit
    /\ settings = [DefaultSettings EXCEPT !.maker_checker_enabled = TRUE]

\* a retry base of one clock unit, so that retries fall due within MaxClock
JobsInit ==
    /\ ReconInit
    /\ settings = [DefaultSettings EXCEPT !.sync_job_retry_base_seconds = 1]

\* ----------------------------------------------------------------- actions
Tick ==
    /\ now < MaxClock
    /\ now' = now + 1
    /\ UNCHANGED <<cis, identities, collisions, audit_events, call, response>>
    /\ UNCHANGED <<approvalVars, jobVars>>

\* POST /ingest/cis:bulk with one payload (ingest.py, ingest_cis_bulk):
\* reconcile, then commit, or roll back on dryRun or on IntegrityError
IngestCi(source, payload, dry_run) ==
    LET r == reconcile_ci_payload(Session(cis, identities, collisions), source, payload, now)
        db == Flush(r.db)
    IN /\ Len(db.cis) <= MaxCIs
       /\ Len(db.collisions) <= MaxCollisions
       /\ call' = [op |-> "ingest", source |-> source, payload |-> payload, dry_run |-> dry_run]
       /\ IF db.failed
          THEN /\ response' = [status_code |-> 409]
               /\ UNCHANGED <<cis, identities, collisions, audit_events>>
          ELSE /\ response' = [status_code |-> 200, ci |-> r.ci,
                               created |-> IF r.created THEN 1 ELSE 0,
                               updated |-> IF r.created THEN 0 ELSE 1,
                               collisions |-> r.collisions,
                               staged |-> IF dry_run THEN 1 ELSE 0]
               /\ IF dry_run
                  THEN UNCHANGED <<cis, identities, collisions, audit_events>>
                  ELSE /\ cis' = db.cis
                       /\ identities' = db.identities
                       /\ collisions' = db.collisions
                       /\ audit_events' = db.audit
       /\ UNCHANGED <<now, approvalVars, jobVars>>

IngestMerge ==
    \E s \in Sources, p \in MergePayloads, d \in BOOLEAN : IngestCi(s, p, d)

IngestCollide ==
    \E s \in CollideSources, p \in CollidePayloads : IngestCi(s, p, FALSE)

\* the same from one source
IngestCollideOne ==
    \E p \in CollidePayloads : IngestCi("azure", p, FALSE)

\* POST /governance/collisions/{id}/resolve (governance.py, resolve_collision)
Resolve(collision_id, note) ==
    /\ call' = [op |-> "resolve", collision_id |-> collision_id, note |-> note]
    /\ IF collision_id > Len(collisions)
       THEN /\ response' = [status_code |-> 404]
            /\ UNCHANGED <<collisions, audit_events>>
       ELSE /\ collisions' = [collisions EXCEPT ![collision_id] =
                [@ EXCEPT !.status = "RESOLVED", !.resolution_note = Some(note),
                          !.resolved_at = Some(now)]]
            /\ audit_events' = <<[event_type |-> "governance.collision.resolved",
                                  ci_id |-> collisions[collision_id].existing_ci_id]>>
            /\ response' = [status_code |-> 200]
    /\ UNCHANGED <<now, cis, identities, approvalVars, jobVars>>

\* the row written by reopen_collision (governance.py lines 47-49)
Reopened(row) ==
    [row EXCEPT !.status = "OPEN", !.resolution_note = None, !.resolved_at = None]

\* POST /governance/collisions/{id}/reopen (governance.py, reopen_collision)
Reopen(collision_id, note) ==
    /\ call' = [op |-> "reopen", collision_id |-> collision_id, note |-> note]
    /\ IF collision_id > Len(collisions)
       THEN /\ response' = [status_code |-> 404]
            /\ UNCHANGED <<collisions, audit_events>>
       ELSE /\ collisions' = [collisions EXCEPT ![collision_id] = Reopened(@)]
            /\ audit_events' = <<[event_type |-> "governance.collision.reopened",
                                  ci_id |-> collisions[collision_id].existing_ci_id]>>
            /\ response' = [status_code |-> 200]
    /\ UNCHANGED <<now, cis, identities, approvalVars, jobVars>>

ResolveCollision ==
    \E k \in 1..(Len(collisions) + 1), n \in ResolutionNotes : Resolve(k, n)

ReopenCollision ==
    \E k \in 1..(Len(collisions) + 1), n \in ResolutionNotes : Reopen(k, n)

\* ------------------------------------------ maker-checker actions
Idle == [kind |-> "idle"]

\* an uncommitted UPDATE of the approval row by another session holds its lock
RowLocked(r, approval_id) ==
    \E q \in DOMAIN requests :
        /\ q # r
        /\ requests[q].kind = "mutate"
        /\ requests[q].pc = "handler"
        /\ requests[q].approval_id = approval_id

\* the scheduler's approval cleanup (sync_jobs.py, _scheduler_loop) and the
\* sweep of GET /approvals: expire, then commit when a row was expired
ExpirySweep ==
    LET swept == expire_pending_approvals(approvals, now)
    IN /\ call' = [op |-> "sweep"]
       /\ response' = [status_code |-> 200, expired_count |-> swept.expired_count]
       /\ approvals' = swept.rows
       /\ audit_events' = IF swept.expired_count > 0 THEN swept.audit ELSE audit_events
       /\ UNCHANGED <<now, cis, identities, collisions, settings, mutations, requests>>
       /\ UNCHANGED jobVars

\* POST /approvals (create_approval): the gate lets the path through, the
\* sweep commits on its own, then the row is inserted and committed
CreateApproval(principal, request_body) ==
    LET swept == expire_pending_approvals(approvals, now)
        gate == _enforce_maker_checker(
                    [principal |-> principal, approval_id |-> 0, method |-> "POST",
                     path |-> ApprovalsPrefix, query |-> <<>>, body |-> "",
                     content_type |-> None], approvals, now)
        request_path == _normalize_request_path(request_body.path, request_body.query)
    IN /\ Len(approvals) < MaxApprovals
       /\ gate.status_code = 0
       /\ call' = [op |-> "create", principal |-> principal, request_body |-> request_body]
       /\ IF request_path.status_code # 0
          THEN /\ response' = [status_code |-> request_path.status_code]
               /\ approvals' = swept.rows
               /\ audit_events' = IF swept.expired_count > 0 THEN swept.audit
                                  ELSE audit_events
               /\ UNCHANGED mutations
          ELSE /\ response' = [status_code |-> 200, id |-> Len(approvals) + 1]
               /\ approvals' = Append(swept.rows,
                                  ChangeApproval(principal, request_body,
                                                 request_path.value, now))
               /\ mutations' = Append(mutations, 0)
               /\ audit_events' = <<[event_type |-> "approval.requested", ci_id |-> 0]>>
       /\ UNCHANGED <<now, cis, identities, collisions, settings, requests>>
       /\ UNCHANGED jobVars

\* approve_approval / reject_approval, first statement: the sweep
DecideSweep(r, kind, principal, approval_id) ==
    LET swept == expire_pending_approvals(approvals, now)
    IN /\ requests[r] = Idle
       /\ call' = [op |-> kind, step |-> "sweep", slot |-> r,
                   principal |-> principal, approval_id |-> approval_id]
       /\ response' = [status_code |-> 0]
       /\ approvals' = swept.rows
       /\ audit_events' = IF swept.expired_count > 0 THEN swept.audit ELSE audit_events
       /\ requests' = [requests EXCEPT ![r] =
                          [kind |-> kind, pc |-> "read", principal |-> principal,
                           approval_id |-> approval_id]]
       /\ UNCHANGED <<now, cis, identities, collisions, settings, mutations>>
       /\ UNCHANGED jobVars

\* the checks without the comparison of the approver with the requester
DecideRefusesAnyApprover(kind, principal, approval_id, rows, utc_now) ==
    IF approval_id > Len(rows)
    THEN [status_code |-> 404, detail |-> "Approval request not found"]
    ELSE IF rows[approval_id].status # "PENDING"
    THEN [status_code |-> 409,
          detail |-> IF kind = "approve" THEN "Only PENDING approvals can be approved"
                     ELSE "Only PENDING approvals can be rejected"]
    ELSE IF kind = "approve" /\ rows[approval_id].expires_at <= utc_now
    THEN [status_code |-> 409, detail |-> "Approval request has expired"]
    ELSE [status_code |-> 0]

\* the status code and detail raised after db.get, or 0
DecideRefuses(kind, principal, approval_id, rows, utc_now) ==
    IF approval_id > Len(rows)
    THEN [status_code |-> 404, detail |-> "Approval request not found"]
    ELSE IF rows[approval_id].status # "PENDING"
    THEN [status_code |-> 409,
          detail |-> IF kind = "approve" THEN "Only PENDING approvals can be approved"
                     ELSE "Only PENDING approvals can be rejected"]
    ELSE IF kind = "approve" /\ rows[approval_id].expires_at <= utc_now
    THEN [status_code |-> 409, detail |-> "Approval request has expired"]
    ELSE IF rows[approval_id].requested_by = principal
    THEN [status_code |-> 409,
          detail |-> IF kind = "approve" THEN "Self-approval is not allowed"
                     ELSE "Self-decision is not allowed"]
    ELSE [status_code |-> 0]

\* second statement: db.get and the checks made on the row it returned
DecideRead(r) ==
    LET req == requests[r]
        refusal == DecideRefuses(req.kind, req.principal, req.approval_id, approvals, now)
    IN /\ req.kind \in {"approve", "reject"}
       /\ req.pc = "read"
       /\ call' = [op |-> req.kind, step |-> "read", slot |-> r,
                   principal |-> req.principal, approval_id |-> req.approval_id]
       /\ response' = refusal
       /\ requests' = [requests EXCEPT ![r] =
                          IF refusal.status_code = 0 THEN [req EXCEPT !.pc = "write"]
                          ELSE Idle]
       /\ UNCHANGED <<now, cis, identities, collisions, audit_events, settings,
                      approvals, mutations>>
       /\ UNCHANGED jobVars

\* the row as the decision's UPDATE by primary key leaves it
Decided(row, kind, principal) ==
    [row EXCEPT !.status = IF kind = "approve" THEN "APPROVED" ELSE "REJECTED",
                !.decided_by = Some(principal)]

\* third statement: the flush of the decision, its audit event and the commit
DecideWrite(r) ==
    LET req == requests[r]
    IN /\ req.kind \in {"approve", "reject"}
       /\ req.pc = "write"
       /\ ~RowLocked(r, req.approval_id)
       /\ call' = [op |-> req.kind, step |-> "write", slot |-> r,
                   principal |-> req.principal, approval_id |-> req.approval_id]
       /\ response' = [status_code |-> 200]
       /\ approvals' = [approvals EXCEPT ![req.approval_id] =
                           Decided(@, req.kind, req.principal)]
       /\ audit_events' = <<[event_type |-> IF req.kind = "approve"
                                            THEN "approval.approved"
                                            ELSE "approval.rejected",
                             ci_id |-> 0]>>
       /\ requests' = [requests EXCEPT ![r] = Idle]
       /\ UNCHANGED <<now, cis, identities, collisions, settings, mutations>>
       /\ UNCHANGED jobVars

\* a mutating request reaches the gate (require_mutation_rate_limit,
\* _enforce_maker_checker up to line 445): db.get and the checks
GateCheck(r, request) ==
    LET gate == _enforce_maker_checker(request, approvals, now)
    IN /\ requests[r] = Idle
       /\ call' = [op |-> "mutate", step |-> "gate", slot |-> r, request |-> request]
       /\ response' = [status_code |-> gate.status_code]
       /\ requests' = [requests EXCEPT ![r] =
                          IF gate.status_code # 0 THEN Idle
                          ELSE [kind |-> "mutate",
                                pc |-> IF gate.approval_id = 0 THEN "handler" ELSE "flush",
                                approval_id |-> gate.approval_id,
                                consumed_at |-> now]]
       /\ UNCHANGED <<now, cis, identities, collisions, audit_events, settings,
                      approvals, mutations>>
       /\ UNCHANGED jobVars

\* lines 447-449: status and consumed_at are set on the loaded row and
\* flushed, uncommitted, in the session the handler will use
GateFlush(r) ==
    LET req == requests[r]
    IN /\ req.kind = "mutate"
       /\ req.pc = "flush"
       /\ ~RowLocked(r, req.approval_id)
       /\ call' = [op |-> "mutate", step |-> "flush", slot |-> r,
                   approval_id |-> req.approval_id]
       /\ response' = [status_code |-> 0]
       /\ requests' = [requests EXCEPT ![r] = [req EXCEPT !.pc = "handler"]]
       /\ UNCHANGED <<now, cis, identities, collisions, audit_events, settings,
                      approvals, mutations>>
       /\ UNCHANGED jobVars

\* the rows as the commit of the gate's flushed UPDATE leaves them
Consumed(rows, approval_id, consumed_at) ==
    IF approval_id = 0 THEN rows
    ELSE [rows EXCEPT ![approval_id] =
             [@ EXCEPT !.status = "CONSUMED", !.consumed_at = Some(consumed_at)]]

\* the handler body ends in db.commit() (relationships.py, create_relationship,
\* and the like): its own rows, which are not modelled, and the gate's UPDATE
\* become durable together
HandlerCommit(r) ==
    LET req == requests[r]
    IN /\ req.kind = "mutate"
       /\ req.pc = "handler"
       /\ req.approval_id # 0 => mutations[req.approval_id] < MaxCommits
       /\ call' = [op |-> "mutate", step |-> "commit", slot |-> r,
                   approval_id |-> req.approval_id]
       /\ response' = [status_code |-> 200]
       /\ approvals' = Consumed(approvals, req.approval_id, req.consumed_at)
       /\ mutations' = IF req.approval_id = 0 THEN mutations
                       ELSE [mutations EXCEPT ![req.approval_id] = @ + 1]
       /\ requests' = [requests EXCEPT ![r] = Idle]
       /\ UNCHANGED <<now, cis, identities, collisions, audit_events, settings>>
       /\ UNCHANGED jobVars

\* a rollback that keeps the gate's UPDATE (the gate committing on its own)
HandlerRollbackKeepsFlush(r, status_code) ==
    LET req == requests[r]
    IN /\ req.kind = "mutate"
       /\ req.pc = "handler"
       /\ call' = [op |-> "mutate", step |-> "rollback", slot |-> r,
                   approval_id |-> req.approval_id]
       /\ response' = [status_code |-> status_code]
       /\ approvals' = Consumed(approvals, req.approval_id, req.consumed_at)
       /\ requests' = [requests EXCEPT ![r] = Idle]
       /\ UNCHANGED <<now, cis, identities, collisions, audit_events, settings,
                      mutations>>
       /\ UNCHANGED jobVars

\* the handler leaves the gate's UPDATE uncommitted: it raises before its
\* commit, or rolls back on IntegrityError, or on dryRun (status 200); the
\* session is closed by get_db and the transaction is rolled back
HandlerRollback(r, status_code) ==
    LET req == requests[r]
    IN /\ req.kind = "mutate"
       /\ req.pc = "handler"
       /\ call' = [op |-> "mutate", step |-> "rollback", slot |-> r,
                   approval_id |-> req.approval_id]
       /\ response' = [status_code |-> status_code]
       /\ requests' = [requests EXCEPT ![r] = Idle]
       /\ UNCHANGED <<now, cis, identities, collisions, audit_events, settings,
                      approvals, mutations>>
       /\ UNCHANGED jobVars

HandlerOutcomes == {404, 409, 200}

\* ------------------------------------------ maker-checker inputs
Principals == {"oidc:alice", "oidc:bob"}
Slots == 1..MaxRequests

GatedPath == <<"/", "r">>
BodyAB == "{\"a\":1,\"b\":2}"
BodyBA == "{\"b\": 2, \"a\": 1}"

ApprovalCreateRequest(method, path, query, payload, ttl_minutes) ==
    [method |-> method, path |-> path, query |-> query, payload |-> payload,
     ttl_minutes |-> ttl_minutes]

Request(principal, approval_id, method, path, query, body, content_type) ==
    [principal |-> principal, approval_id |-> approval_id, method |-> method,
     path |-> path, query |-> query, body |-> body, content_type |-> content_type]

\* approval requests over paths, queries and payloads
GateBodies ==
    { ApprovalCreateRequest("POST", path, query, payload, 1) :
        path \in {GatedPath, <<" ">> \o GatedPath, <<"r">>, ApprovalsPrefix},
        query \in {None, Some(<<"?", "x">>)},
        payload \in {None, Some([a |-> 1, b |-> 2])} }

\* mutating requests that meet or miss each check of the gate
GateRequests ==
    { Request(principal, approval_id, method, GatedPath, query, body, content_type) :
        principal \in Principals, approval_id \in 0..(MaxApprovals + 1),
        method \in {"POST", "DELETE"}, query \in {<<>>, <<"x">>},
        body \in {"", BodyAB, BodyBA},
        content_type \in {None, Some("application/json")} }

\* one approval request and the mutating request it describes
RaceBodies == { ApprovalCreateRequest("POST", GatedPath, None, None, 1) }
RaceRequests ==
    { Request("oidc:alice", approval_id, "POST", GatedPath, <<>>, "", None) :
        approval_id \in 1..MaxApprovals }

\* ------------------------------------------ sync jobs (services/sync_jobs.py)
Max(S) == CHOOSE x \in S : \A y \in S : y <= x

SyncJob(job_type, requested_by, payload, max_attempts, utc_now) ==
    [job_type |-> job_type,
     requested_by |-> requested_by,
     payload |-> payload,
     status |-> "QUEUED",
     attempt_count |-> 0,
     max_attempts |-> Max({1, IF max_attempts = None
                              THEN settings.sync_job_max_attempts
                              ELSE max_attempts[1]}),
     next_run_at |-> utc_now,
     created_at |-> utc_now,
     last_error |-> None]

\* the payload netbox_import gives a job when the query has only async=true
DefaultJobPayload == [limit |-> 2, dry_run |-> FALSE, incremental |-> TRUE]

\* enqueue_sync_job and the commit of its caller (integrations.py, netbox_import)
EnqueueSyncJob(payload, max_attempts) ==
    /\ Len(sync_jobs) < MaxJobs
    /\ call' = [op |-> "enqueue", max_attempts |-> max_attempts]
    /\ response' = [status_code |-> 200, job_id |-> Len(sync_jobs) + 1]
    /\ sync_jobs' = Append(sync_jobs, SyncJob("netbox.import", "service:operator",
                                             payload, max_attempts, now))
    /\ audit_events' = <<[event_type |-> "integration.job.queued", ci_id |-> 0]>>
    /\ job_events' = Append(job_events, [started |-> 0, retry_scheduled |-> 0,
                                         failed |-> 0, succeeded |-> 0])
    /\ UNCHANGED <<now, reconVars, approvalVars, serviceVars, sync_state, workers, telemetry>>

EnqueueJob(max_attempts) == EnqueueSyncJob(DefaultJobPayload, max_attempts)

_retry_delay_seconds(attempt_count) ==
    Max({1, settings.sync_job_retry_base_seconds}) * 2 ^ Max({0, attempt_count - 1})

\* the rows the SELECT of _claim_next_job can return: QUEUED, due, oldest first
Candidates(rows, utc_now) ==
    LET due == { j \in 1..Len(rows) :
                    rows[j].status = "QUEUED" /\ rows[j].next_run_at <= utc_now }
    IN { j \in due : \A k \in due : rows[j].created_at <= rows[k].created_at }

\* _claim_next_job, first statement: the SELECT of a candidate
ClaimSelect(w, job_id) ==
    /\ workers[w].pc = "idle"
    /\ job_id \in Candidates(sync_jobs, now)
    /\ call' = [op |-> "worker", step |-> "select", worker |-> w, job_id |-> job_id]
    /\ response' = [status_code |-> 0]
    /\ workers' = [workers EXCEPT ![w] =
                      [pc |-> "claim", job_id |-> job_id, now |-> now,
                       attempt_count |-> sync_jobs[job_id].attempt_count]]
    /\ UNCHANGED <<now, reconVars, audit_events, approvalVars, serviceVars, sync_state, sync_jobs, telemetry,
                   job_events>>

\* the SELECT finds nothing: process_next_sync_job returns False
ClaimNothing(w) ==
    /\ workers[w].pc = "idle"
    /\ Candidates(sync_jobs, now) = {}
    /\ call' = [op |-> "worker", step |-> "select", worker |-> w, job_id |-> 0]
    /\ response' = [status_code |-> 0]
    /\ UNCHANGED <<now, reconVars, audit_events, approvalVars, jobVars>>

\* variant of the claim condition that matches the row whatever its status
ClaimWinsAlways(row) == TRUE

\* rowcount == 1 of the claim UPDATE: the WHERE matches the candidate's row
\* only while its committed status is still QUEUED
ClaimWins(row) == row.status = "QUEUED"

\* second statement: the UPDATE ... WHERE id = candidate AND status = QUEUED,
\* then the commit, or the rollback when no row was updated
ClaimUpdate(w) ==
    LET claim == workers[w]
        claimed == ClaimWins(sync_jobs[claim.job_id])
    IN /\ claim.pc = "claim"
       /\ call' = [op |-> "worker", step |-> "claim", worker |-> w,
                   job_id |-> claim.job_id]
       /\ response' = [status_code |-> 0, claimed |-> claimed]
       /\ IF claimed
          THEN /\ sync_jobs' = [sync_jobs EXCEPT ![claim.job_id] =
                                   [@ EXCEPT !.status = "RUNNING",
                                             !.attempt_count = claim.attempt_count + 1,
                                             !.last_error = None]]
               /\ audit_events' = <<[event_type |-> "integration.job.started",
                                     ci_id |-> 0]>>
               /\ job_events' = [job_events EXCEPT ![claim.job_id].started = @ + 1]
               /\ workers' = [workers EXCEPT ![w] =
                                 [pc |-> "run", job_id |-> claim.job_id]]
          ELSE /\ workers' = [workers EXCEPT ![w] = [pc |-> "idle"]]
               /\ UNCHANGED <<sync_jobs, audit_events, job_events>>
       /\ UNCHANGED <<now, reconVars, approvalVars, serviceVars, sync_state, telemetry>>

\* _execute_claimed_job ends; _complete_job_success or _complete_job_failure
\* loads the job with db.get
CompleteRead(w, succeeded) ==
    LET run == workers[w]
    IN /\ run.pc = "run"
       /\ call' = [op |-> "worker", step |-> "executed", worker |-> w,
                   job_id |-> run.job_id]
       /\ response' = [status_code |-> 0]
       /\ workers' = [workers EXCEPT ![w] =
                         [pc |-> "complete", job_id |-> run.job_id,
                          succeeded |-> succeeded,
                          attempt_count |-> sync_jobs[run.job_id].attempt_count,
                          max_attempts |-> sync_jobs[run.job_id].max_attempts]]
       /\ UNCHANGED <<now, reconVars, audit_events, approvalVars, serviceVars, sync_state, sync_jobs, telemetry,
                   job_events>>

\* a retry whatever the attempts already made
RetryAlways(attempt_count, max_attempts) == TRUE

\* the test of _complete_job_failure that keeps the job alive
Retry(attempt_count, max_attempts) == attempt_count < max_attempts

\* the row as _complete_job_success or _complete_job_failure writes it
Completed(row, done, utc_now) ==
    IF done.succeeded THEN [row EXCEPT !.status = "SUCCEEDED"]
    ELSE IF Retry(done.attempt_count, done.max_attempts)
    THEN [row EXCEPT !.status = "QUEUED", !.last_error = Some("job_execution_failed"),
                     !.next_run_at = utc_now + _retry_delay_seconds(done.attempt_count)]
    ELSE [row EXCEPT !.status = "FAILED", !.last_error = Some("job_execution_failed")]

\* variant that reports every completion as a success
CompletionEventSucceeded(done) == "integration.job.succeeded"

\* the audit event of _complete_job_success and of _complete_job_failure
CompletionEvent(done) ==
    IF done.succeeded THEN "integration.job.succeeded"
    ELSE IF Retry(done.attempt_count, done.max_attempts)
    THEN "integration.job.retry_scheduled"
    ELSE "integration.job.failed"

\* the UPDATE by primary key of the loaded job, its audit event, the commit
\* and, after a terminal failure, record_event("sync.job_failed")
CompleteWrite(w) ==
    LET done == workers[w]
    IN /\ done.pc = "complete"
       /\ call' = [op |-> "worker", step |-> "complete", worker |-> w,
                   job_id |-> done.job_id]
       /\ response' = [status_code |-> 0]
       /\ sync_jobs' = [sync_jobs EXCEPT ![done.job_id] = Completed(@, done, now)]
       /\ audit_events' = <<[event_type |-> CompletionEvent(done), ci_id |-> 0]>>
       /\ job_events' = [job_events EXCEPT ![done.job_id] =
              [@ EXCEPT !.succeeded =
                            IF CompletionEvent(done) = "integration.job.succeeded"
                            THEN @ + 1 ELSE @,
                        !.retry_scheduled =
                            IF CompletionEvent(done) = "integration.job.retry_scheduled"
                            THEN @ + 1 ELSE @,
                        !.failed =
                            IF CompletionEvent(done) = "integration.job.failed"
                            THEN @ + 1 ELSE @]]
       /\ telemetry' = IF CompletionEvent(done) = "integration.job.failed"
                       THEN telemetry + 1 ELSE telemetry
       /\ workers' = [workers EXCEPT ![w] = [pc |-> "idle"]]
       /\ UNCHANGED <<now, reconVars, approvalVars, serviceVars, sync_state>>

\* max_attempts as given to enqueue_sync_job: absent, or a number
MaxAttemptsInputs == {None, Some(0), Some(2)}
Workers == 1..MaxWorkers

Enqueue == \E max_attempts \in MaxAttemptsInputs : EnqueueJob(max_attempts)
Select == \E w \in Workers, job_id \in 1..Len(sync_jobs) : ClaimSelect(w, job_id)
SelectNothing == \E w \in Workers : ClaimNothing(w)
Claim == \E w \in Workers : ClaimUpdate(w)
Execute == \E w \in Workers, succeeded \in BOOLEAN : CompleteRead(w, succeeded)
Complete == \E w \in Workers : CompleteWrite(w)

JobsNext ==
    \/ Tick
    \/ Enqueue
    \/ Select
    \/ SelectNothing
    \/ Claim
    \/ Execute
    \/ Complete

\* the job queue with concurrent workers
SpecJobs == JobsInit /\ [][JobsNext]_vars

\* the process exits or is killed while worker w is inside process_next_sync_job:
\* the threads are daemon threads, so the open transaction is lost and what
\* was committed stays; start_sync_worker then starts a fresh loop
WorkerCrash(w) ==
    /\ workers[w].pc \in {"claim", "run", "complete"}
    /\ workers' = [workers EXCEPT ![w] = [pc |-> "idle"]]
    /\ call' = [op |-> "worker", step |-> "crash", worker |-> w, job_id |-> 0]
    /\ response' = [status_code |-> 0]
    /\ UNCHANGED <<now, reconVars, audit_events, approvalVars, serviceVars, sync_state, sync_jobs, telemetry,
                   job_events>>

\* one iteration step of _worker_loop for worker w
WorkerStep(w) ==
    \/ \E job_id \in 1..Len(sync_jobs) : ClaimSelect(w, job_id)
    \/ ClaimNothing(w)
    \/ ClaimUpdate(w)
    \/ \E succeeded \in BOOLEAN : CompleteRead(w, succeeded)
    \/ CompleteWrite(w)

Poll == WorkerStep(1)
Crash == WorkerCrash(1)

LiveNext ==
    \/ Tick
    \/ Enqueue
    \/ Poll
    \/ Crash

\* one worker that keeps polling and may be killed and restarted: the loop
\* and the clock always advance when they can, a crash is never forced
SpecJobsLive ==
    /\ JobsInit
    /\ [][LiveNext]_vars
    /\ WF_vars(Poll)
    /\ WF_vars(Tick)

\* ------------------------------------- NetBox import (services/integrations.py)
\* An ISO-8601 text is <<"iso", t>> for the instant t; a datetime is the instant.
_parse_iso_datetime(value) == IF value = None THEN None ELSE Some(value[2])

_to_iso_datetime(value) == IF value = None THEN None ELSE <<"iso", value[1]>>

\* the upstream answers GET with the records whose last_updated is not
\* before last_updated__gte, in pages of NetboxPageSize with a next link
NetboxPageSize == 2

Matching(inventory, params) ==
    IF params = None THEN inventory
    ELSE SelectSeq(inventory,
                   LAMBDA r : _parse_iso_datetime(r.last_updated)[1]
                                  >= _parse_iso_datetime(params)[1])

RECURSIVE Pages(_)
Pages(records) ==
    IF Len(records) <= NetboxPageSize THEN <<records>>
    ELSE <<SubSeq(records, 1, NetboxPageSize)>>
             \o Pages(SubSeq(records, NetboxPageSize + 1, Len(records)))

\* the for loop over one page's results
RECURSIVE CollectResults(_, _, _)
CollectResults(acc, results, max_items) ==
    IF results = <<>> THEN acc
    ELSE LET parsed == _parse_iso_datetime(Head(results).last_updated)
             a == [items |-> Append(acc.items, Head(results)),
                   max_last_updated |->
                       IF parsed # None /\ (acc.max_last_updated = None
                                            \/ parsed[1] > acc.max_last_updated[1])
                       THEN parsed ELSE acc.max_last_updated]
         IN IF Len(a.items) >= max_items THEN a
            ELSE CollectResults(a, Tail(results), max_items)

\* the while loop over the pages; pages is never empty
RECURSIVE CollectPages(_, _, _)
CollectPages(acc, pages, max_items) ==
    LET a == CollectResults(acc, Head(pages), max_items)
        next_url == Len(pages) > 1
    IN IF next_url /\ Len(a.items) >= max_items
       THEN [items |-> a.items, exhausted |-> FALSE,
             max_last_updated |-> a.max_last_updated]
       ELSE IF ~next_url \/ Len(a.items) >= max_items
            THEN [items |-> a.items, exhausted |-> TRUE,
                  max_last_updated |-> a.max_last_updated]
            ELSE CollectPages(a, Tail(pages), max_items)

_netbox_collect(inventory, max_items, params) ==
    CollectPages([items |-> <<>>, max_last_updated |-> None],
                 Pages(Matching(inventory, params)), max_items)

\* the CIPayload built from a device or virtual-machine record
NetboxPayload(record, ci_type, scheme) ==
    [name |-> record.name, ci_type |-> ci_type, owner |-> None,
     attributes |-> "netbox-attrs",
     identities |-> <<[scheme |-> scheme, value |-> record.id],
                      [scheme |-> "hostname", value |-> record.name]>>,
     last_seen_at |-> None]

Payloads(records, ci_type, scheme) ==
    [i \in 1..Len(records) |-> NetboxPayload(records[i], ci_type, scheme)]

fetch_netbox_cis_incremental(limit, since_devices, since_vms, devices, vms) ==
    LET half == Max2(1, limit \div 2)
        d == _netbox_collect(devices, half, _to_iso_datetime(since_devices))
        v == _netbox_collect(vms, Max2(1, limit - half), _to_iso_datetime(since_vms))
        payloads == Payloads(d.items, "netbox_device", "netbox_device_id")
                        \o Payloads(v.items, "netbox_vm", "netbox_vm_id")
    IN [cis |-> SubSeq(payloads, 1, IF Len(payloads) < limit THEN Len(payloads) ELSE limit),
        devices |-> [fetched |-> Len(d.items), exhausted |-> d.exhausted,
                     max_last_updated |-> _to_iso_datetime(d.max_last_updated)],
        vms |-> [fetched |-> Len(v.items), exhausted |-> v.exhausted,
                 max_last_updated |-> _to_iso_datetime(v.max_last_updated)]]

\* the loop of run_netbox_import over batch["cis"], in one session
RECURSIVE ReconcileAll(_, _, _)
ReconcileAll(acc, payloads, utc_now) ==
    IF payloads = <<>> THEN acc
    ELSE LET r == reconcile_ci_payload(acc.db, "netbox", Head(payloads), utc_now)
         IN ReconcileAll([db |-> r.db,
                          created |-> acc.created + (IF r.created THEN 1 ELSE 0),
                          updated |-> acc.updated + (IF r.created THEN 0 ELSE 1),
                          collisions |-> acc.collisions + r.collisions],
                         Tail(payloads), utc_now)

\* the value of a watermark after the run: written when the run advances
\* watermarks, the endpoint was exhausted and a last_updated was seen
WatermarkAfter(old, endpoint, advance) ==
    IF advance /\ endpoint.exhausted /\ endpoint.max_last_updated # None
    THEN endpoint.max_last_updated ELSE old

\* run_netbox_import in the request's session: the session after the loop,
\* the counters and the watermarks written
run_netbox_import(db0, watermarks, limit, dry_run, incremental, devices, vms, utc_now) ==
    LET since_devices == IF incremental THEN _parse_iso_datetime(watermarks.devices)
                         ELSE None
        since_vms == IF incremental THEN _parse_iso_datetime(watermarks.vms) ELSE None
    IN LET batch == fetch_netbox_cis_incremental(limit, since_devices, since_vms,
                                                 devices, vms)
       IN LET r == ReconcileAll([db |-> db0, created |-> 0, updated |-> 0,
                                 collisions |-> 0], batch.cis, utc_now)
              from_devices == IF batch.devices.fetched < Len(batch.cis)
                              THEN batch.devices.fetched ELSE Len(batch.cis)
              advance == ~dry_run /\ incremental
          IN [db |-> Flush(r.db), created |-> r.created, updated |-> r.updated,
              collisions |-> r.collisions,
              staged |-> IF dry_run THEN r.created + r.updated ELSE 0,
              reconciled |-> [devices |-> from_devices,
                              vms |-> Len(batch.cis) - from_devices],
              watermarks |->
                  [devices |-> WatermarkAfter(watermarks.devices, batch.devices,
                                                 advance),
                   vms |-> WatermarkAfter(watermarks.vms, batch.vms, advance)]]

\* POST /integrations/netbox/import (routers/integrations.py, netbox_import)
\* against an upstream that holds the device and vm records given
NetboxImport(limit, dry_run, incremental, devices, vms) ==
    \E result \in { run_netbox_import(Session(cis, identities, collisions), sync_state,
                                      limit, dry_run, incremental, devices, vms, now) } :
       /\ Len(result.db.cis) <= MaxCIs
       /\ Len(result.db.collisions) <= MaxCollisions
       /\ call' = [op |-> "netbox_import", limit |-> limit, dry_run |-> dry_run,
                   incremental |-> incremental, devices |-> devices, vms |-> vms]
       /\ IF result.db.failed
          THEN /\ response' = [status_code |-> 502]
               /\ UNCHANGED <<cis, identities, collisions, audit_events, sync_state>>
          ELSE /\ response' = [status_code |-> 200, created |-> result.created,
                               updated |-> result.updated,
                               collisions |-> result.collisions,
                               staged |-> result.staged,
                               reconciled |-> result.reconciled]
               /\ IF dry_run
                  THEN UNCHANGED <<cis, identities, collisions, audit_events, sync_state>>
                  ELSE /\ cis' = result.db.cis
                       /\ identities' = result.db.identities
                       /\ collisions' = result.db.collisions
                       /\ audit_events' = result.db.audit
                       /\ sync_state' = result.watermarks
       /\ UNCHANGED <<now, approvalVars, serviceVars, sync_jobs, workers, telemetry,
                      job_events>>

\* upstream inventories: the first n records of an endpoint in upstream order,
\* last touched together at one instant
LastUpdated == { <<"iso", t>> : t \in 1..MaxClock }
DeviceIds == <<"1", "2", "3">>
DeviceNames == <<"a", "b", "c">>

Inventories(ids, names, stamps) ==
    { [i \in 1..n |-> [id |-> ids[i], name |-> names[i], last_updated |-> u]] :
          n \in 0..Len(ids), u \in stamps }

NetboxDevices == Inventories(DeviceIds, DeviceNames, LastUpdated)
NetboxVms == Inventories(<<"1">>, <<"d">>, {<<"iso", 1>>})
ImportLimits == {2, 4}

Import ==
    \E limit \in ImportLimits, dry_run \in BOOLEAN, incremental \in BOOLEAN,
       devices \in NetboxDevices, vms \in NetboxVms :
        NetboxImport(limit, dry_run, incremental, devices, vms)

NetboxNext == Import

\* imports against a changing upstream
SpecNetbox == Init /\ [][NetboxNext]_vars

\* --------------------------------- drift (services/drift.py, routers/cis.py)
RESOLVABLE_CI_FIELDS == {"name", "ci_type", "owner"}

\* what the upstream said about the CI: no configuration, an error, no such
\* object, or the object found with its projection (a missing key is None)
NetboxIdentitySchemes == {"netbox_device_id", "netbox_vm_id"}

_netbox_state_for_ci(rows, ci_id, answer) ==
    IF answer.status = "unavailable" THEN answer
    ELSE IF ~\E r \in rows : r.ci_id = ci_id /\ r.scheme \in NetboxIdentitySchemes
         THEN [status |-> "not_applicable"]
         ELSE IF answer.status \in {"missing", "error"} THEN answer
              ELSE [status |-> "found",
                    target |-> [answer.target EXCEPT !.ci_type = None]]

_backstage_state_for_ci(answer) == answer

compute_ci_drift(rows, ci_id, netbox, backstage) ==
    [netbox |-> _netbox_state_for_ci(rows, ci_id, netbox),
     backstage |-> _backstage_state_for_ci(backstage)]

\* the column value of str(incoming_value): owner is nullable, the others not
Coerced(field, incoming_value) ==
    IF field = "owner" THEN Some(incoming_value) ELSE incoming_value

\* the loop over requested_fields
RECURSIVE ApplyFields(_, _, _)
ApplyFields(acc, requested_fields, source_target) ==
    IF requested_fields = <<>> THEN acc
    ELSE LET field == Head(requested_fields)
             rest == Tail(requested_fields)
         IN IF field \notin RESOLVABLE_CI_FIELDS \/ source_target[field] = None
            THEN ApplyFields([acc EXCEPT !.ignored_fields = Append(@, field)],
                             rest, source_target)
            ELSE LET coerced_incoming == Coerced(field, source_target[field][1])
                 IN IF acc.ci[field] # coerced_incoming
                    THEN ApplyFields([acc EXCEPT !.ci[field] = coerced_incoming,
                                                 !.applied = @ \cup {field}],
                                     rest, source_target)
                    ELSE ApplyFields(acc, rest, source_target)

\* POST /cis/{ci_id}/drift/resolve (routers/cis.py, resolve_ci_drift), with
\* what NetBox and Backstage answer about the CI
ResolveDrift(ci_id, selected_source, fields, netbox, backstage) ==
    LET requested_fields == SelectSeq(fields, LAMBDA field : field # "")
    IN /\ call' = [op |-> "drift_resolve", ci_id |-> ci_id, source |-> selected_source,
                   fields |-> fields]
       /\ IF ci_id > Len(cis)
          THEN /\ response' = [status_code |-> 404]
               /\ UNCHANGED <<cis, audit_events>>
          ELSE IF requested_fields = <<>>
          THEN /\ response' = [status_code |-> 400]
               /\ UNCHANGED <<cis, audit_events>>
          ELSE LET source_state ==
                       IF selected_source = "cmdb" THEN [status |-> "cmdb"]
                       ELSE compute_ci_drift(identities, ci_id, netbox,
                                             backstage)[selected_source]
               IN IF source_state.status \in {"unavailable", "error", "missing",
                                              "not_applicable"}
                  THEN /\ response' = [status_code |-> 400]
                       /\ UNCHANGED <<cis, audit_events>>
                  ELSE LET done ==
                               IF selected_source = "cmdb"
                               THEN [ci |-> cis[ci_id], applied |-> {},
                                     ignored_fields |-> requested_fields]
                               ELSE ApplyFields([ci |-> cis[ci_id], applied |-> {},
                                                 ignored_fields |-> <<>>],
                                                requested_fields, source_state.target)
                       IN /\ cis' = [cis EXCEPT ![ci_id] =
                                 IF done.applied # {}
                                 THEN [done.ci EXCEPT !.source = selected_source]
                                 ELSE done.ci]
                          /\ audit_events' = <<[event_type |-> "ci.drift.resolved",
                                                ci_id |-> ci_id]>>
                          /\ response' = [status_code |-> 200,
                                          applied |-> done.applied,
                                          ignored_fields |-> done.ignored_fields]
       /\ UNCHANGED <<now, identities, collisions, approvalVars, jobVars>>

DriftSources == {"cmdb", "netbox", "backstage"}
DriftFields == { <<"name", "ci_type", "owner">>, <<"owner">>, <<"", "status">>, <<"">> }
DriftTargets ==
    { [name |-> n, ci_type |-> Some("server"), owner |-> o] :
          n \in {None, Some("old"), Some("new")}, o \in {None, Some("ops")} }
DriftAnswers ==
    { [status |-> st] : st \in {"unavailable", "error", "missing"} }
    \cup { [status |-> "found", target |-> t] : t \in DriftTargets }

\* payloads that name one entity, with or without its NetBox identity
DriftPayloads ==
    { CIPayload(p, ids, None) :
        p \in PayloadProfiles,
        ids \in { <<[scheme |-> "hostname", value |-> "a"]>>,
                  <<[scheme |-> "hostname", value |-> "a"],
                    [scheme |-> "netbox_device_id", value |-> "1"]>> } }

IngestDrift == \E s \in Sources, p \in DriftPayloads : IngestCi(s, p, FALSE)

ResolveCiDrift ==
    \E ci_id \in 1..MaxCIs, selected_source \in DriftSources, fields \in DriftFields,
       answer \in DriftAnswers :
        ResolveDrift(ci_id, selected_source, fields, answer, answer)

DriftNext == IngestDrift \/ ResolveCiDrift

\* reconciliation and drift resolution on the same CIs
SpecDrift == Init /\ [][DriftNext]_vars

\* ------------------------------------------- lifecycle (services/lifecycle.py)
\* A day is TicksPerDay instants of the clock.
TicksPerDay == 2

\* timedelta.days of now - last_seen: whole days, rounded down
inactive_days(utc_now, last_seen) == (utc_now - last_seen) \div TicksPerDay

\* variant whose thresholds are exclusive
lifecycle_status_exclusive(days) ==
    IF days > settings.lifecycle_retired_days THEN "RETIRED"
    ELSE IF days > settings.lifecycle_review_days THEN "RETIREMENT_REVIEW"
    ELSE IF days > settings.lifecycle_staging_days THEN "STAGING"
    ELSE "ACTIVE"

\* the if chain of _process_batch
lifecycle_status(days) ==
    IF days >= settings.lifecycle_retired_days THEN "RETIRED"
    ELSE IF days >= settings.lifecycle_review_days THEN "RETIREMENT_REVIEW"
    ELSE IF days >= settings.lifecycle_staging_days THEN "STAGING"
    ELSE "ACTIVE"

\* variant that treats every processed CI as transitioned
StatusChangedAlways(old_status, status) == TRUE

\* the test ci.status != old_status after the if chain
StatusChanged(old_status, status) == status # old_status

\* the model keeps no relationships table: every CI is an orphan
relationship_ci_ids == {}

\* _process_batch over the CIs from ci_id on, in id order; acc = [cis, audit,
\* transitioned, notified_ci_ids]
RECURSIVE _process_batch(_, _, _)
_process_batch(acc, ci_id, utc_now) ==
    IF ci_id > Len(acc.cis) THEN acc
    ELSE LET ci == acc.cis[ci_id]
             days == inactive_days(utc_now, ci.last_seen_at)
             status == lifecycle_status(days)
             changed == StatusChanged(ci.status, status)
             review == changed /\ status = "RETIREMENT_REVIEW"
                           /\ ci_id \notin acc.notified_ci_ids
             notified == IF review THEN acc.notified_ci_ids \cup {ci_id}
                         ELSE acc.notified_ci_ids
             orphan == ci_id \notin relationship_ci_ids /\ ci_id \notin notified
         IN _process_batch(
                [cis |-> [acc.cis EXCEPT ![ci_id].status = status],
                 audit |-> acc.audit
                     \o (IF changed
                         THEN <<[event_type |-> "ci.lifecycle.transitioned",
                                 ci_id |-> ci_id, from |-> ci.status, to |-> status]>>
                         ELSE <<>>)
                     \o (IF orphan
                         THEN <<[event_type |-> "governance.orphan.detected",
                                 ci_id |-> ci_id]>>
                         ELSE <<>>),
                 transitioned |-> acc.transitioned + (IF changed THEN 1 ELSE 0),
                 notified_ci_ids |-> IF orphan THEN notified \cup {ci_id} ELSE notified],
                ci_id + 1, utc_now)

run_lifecycle(rows, utc_now) ==
    _process_batch([cis |-> rows, audit |-> <<>>, transitioned |-> 0,
                    notified_ci_ids |-> {}], 1, utc_now)

\* POST /lifecycle/run (routers/lifecycle.py, trigger_lifecycle_run)
RunLifecycle ==
    \E done \in { run_lifecycle(cis, now) } :
        /\ call' = [op |-> "lifecycle", now |-> now]
        /\ cis' = done.cis
        /\ audit_events' = done.audit
        /\ response' = [status_code |-> 200, transitioned |-> done.transitioned]
        /\ UNCHANGED <<now, identities, collisions, approvalVars, jobVars>>

\* last_seen_at of a payload: half a day short of each threshold and on it
AgedDatetimes ==
    { [local |-> 0 - (days * TicksPerDay) + early, aware |-> FALSE, offset |-> 0] :
          days \in { settings.lifecycle_staging_days, settings.lifecycle_review_days,
                     settings.lifecycle_retired_days },
          early \in {0, 1} }

AgedPayloads ==
    { CIPayload(p, <<ident>>, ls) :
        p \in { q \in PayloadProfiles : q.name = "old" }, ident \in IdentityPool,
        ls \in {None} \cup { Some(d) : d \in AgedDatetimes } }

IngestAged == \E p \in AgedPayloads : IngestCi("manual", p, FALSE)

LifecycleNext == Tick \/ IngestAged \/ RunLifecycle

\* lifecycle runs between ingests of fresh and of long unseen CIs
SpecLifecycle == Init /\ [][LifecycleNext]_vars

\* ------------------------------ request parsing (routers/ingest.py, schemas.py)
\* CIPayload.model_validate on an item without ciClass and canonicalName:
\* name and ci_type are required strings, identities a required list of
\* {scheme, value} of any length; None stands for a missing field
model_validate(raw) ==
    IF raw.name = None \/ raw.ci_type = None \/ raw.identities = None
    THEN [ok |-> FALSE]
    ELSE [ok |-> TRUE,
          value |-> [name |-> raw.name[1], ci_type |-> raw.ci_type[1],
                     owner |-> raw.owner, attributes |-> raw.attributes,
                     identities |-> raw.identities[1], last_seen_at |-> None]]

\* POST /ingest/cis:bulk with one item: _parse_ci_bulk_request answers 422 for
\* an item the schema refuses, otherwise the handler reconciles and commits
IngestRaw(source, raw) ==
    LET parsed == model_validate(raw)
    IN IF parsed.ok
       THEN IngestCi(source, parsed.value, FALSE)
       ELSE /\ call' = [op |-> "ingest", source |-> source, raw |-> raw, dry_run |-> FALSE]
            /\ response' = [status_code |-> 422]
            /\ UNCHANGED <<now, reconVars, audit_events, approvalVars, jobVars>>

\* items with identities missing, empty, or naming one entity or two
RawItems ==
    { [name |-> Some(p.name), ci_type |-> Some(p.ci_type), owner |-> p.owner,
       attributes |-> p.attributes, identities |-> ids] :
          p \in PayloadProfiles,
          ids \in {None} \cup { Some(l) : l \in IdentityLists } }

IngestItem == \E source \in CollideSources, raw \in RawItems : IngestRaw(source, raw)

SchemaNext == IngestItem

\* single-item ingests of raw request items
SpecSchema == Init /\ [][SchemaNext]_vars

\* ------------------------------- job execution (sync_jobs.py, _execute_claimed_job)
\* variant in which only an exception keeps the run session from committing
JobCommitsDryRun(raised, dry_run) == ~raised

\* run_db.commit() is reached when nothing raised and the job is not a dry run;
\* otherwise the session is rolled back, or closed with its transaction open
JobCommits(raised, dry_run) == ~raised /\ ~dry_run

\* _execute_claimed_job for a netbox.import job, in its own session, against an
\* upstream that holds the given records; fault says what raises: nothing, the
\* fetch (the upstream cannot be reached), or a statement of the run session
\* after the reconcile loop (a database error); then the db.get of
\* _complete_job_success or _complete_job_failure
ExecuteClaimedJob(w, fault, devices, vms) ==
    LET run == workers[w]
        job == sync_jobs[run.job_id]
    IN /\ run.pc = "run"
       /\ \E result \in { run_netbox_import(Session(cis, identities, collisions),
                                            sync_state, job.payload.limit,
                                            job.payload.dry_run,
                                            job.payload.incremental, devices, vms, now) } :
         LET raised == fault # "none" \/ result.db.failed
             commits == JobCommits(raised, job.payload.dry_run)
         IN /\ job.job_type = "netbox.import"
            /\ Len(result.db.cis) <= MaxCIs
            /\ Len(result.db.collisions) <= MaxCollisions
            /\ call' = [op |-> "worker", step |-> "executed", worker |-> w,
                        job_id |-> run.job_id, raised |-> raised,
                        dry_run |-> job.payload.dry_run,
                        written |-> fault # "fetch" /\ Len(result.db.audit) > 0]
            /\ response' = [status_code |-> 0]
            /\ cis' = IF commits THEN result.db.cis ELSE cis
            /\ identities' = IF commits THEN result.db.identities ELSE identities
            /\ collisions' = IF commits THEN result.db.collisions ELSE collisions
            /\ audit_events' = IF commits THEN result.db.audit ELSE audit_events
            /\ sync_state' = IF commits THEN result.watermarks ELSE sync_state
            /\ workers' = [workers EXCEPT ![w] =
                              [pc |-> "complete", job_id |-> run.job_id,
                               succeeded |-> ~raised,
                               attempt_count |-> job.attempt_count,
                               max_attempts |-> job.max_attempts]]
            /\ UNCHANGED <<now, approvalVars, serviceVars, sync_jobs, telemetry,
                           job_events>>

\* the payloads of POST /integrations/netbox/import?async=true
JobPayloads == { [limit |-> 2, dry_run |-> d, incremental |-> TRUE] : d \in BOOLEAN }

EnqueueImport == \E payload \in JobPayloads : EnqueueSyncJob(payload, Some(1))

RunJob ==
    \E fault \in {"none", "fetch", "database"},
       devices \in { d \in NetboxDevices :
                       \A i \in 1..Len(d) : d[i].last_updated = <<"iso", 1>> },
       vms \in NetboxVms :
        ExecuteClaimedJob(1, fault, devices, vms)

ExecuteNext ==
    \/ EnqueueImport
    \/ \E job_id \in 1..Len(sync_jobs) : ClaimSelect(1, job_id)
    \/ ClaimUpdate(1)
    \/ RunJob
    \/ CompleteWrite(1)

\* one worker that runs import jobs, real and dry, against the upstream
SpecExecute == JobsInit /\ [][ExecuteNext]_vars


\* ------------------------- worker threads (sync_jobs.py, start/stop_sync_worker)
\* Thread.is_alive(): started and not yet returned from its target
is_alive(t) == threads[t].pc \in {"loop", "busy"}

FreeThreads == { t \in 1..MaxThreads : threads[t].target = "none" }

\* start_sync_worker, under _worker_lock
start_sync_worker ==
    /\ call' = [op |-> "start_sync_worker"]
    /\ response' = [status_code |-> 0]
    /\ IF _worker_thread # 0 /\ is_alive(_worker_thread)
       THEN UNCHANGED threadVars
       ELSE \E w \in FreeThreads, s \in FreeThreads :
                /\ w < s
                /\ \A t \in FreeThreads : w <= t
                /\ \A t \in FreeThreads \ {w} : s <= t
                /\ _worker_stop_event' = FALSE
                /\ _worker_thread' = w
                /\ _scheduler_thread' = s
                /\ threads' = [threads EXCEPT ![w] = [target |-> "_worker_loop", pc |-> "loop"],
                                              ![s] = [target |-> "_scheduler_loop",
                                                      pc |-> "loop"]]
    /\ UNCHANGED <<now, reconVars, audit_events, approvalVars, queueVars, limiterVars,
                   scheduleVars, limiters, publishVars>>

\* Thread.join(timeout=5) after the event is set: a loop that is waiting wakes
\* and returns; one that is inside an iteration returns within the timeout
\* only if the iteration finishes in time
Joined(t, finishes) == threads[t].pc # "busy" \/ t \in finishes

\* stop_sync_worker, under _worker_lock; finishes = the busy threads whose
\* iteration ends within the timeout of their join
stop_sync_worker(finishes) ==
    /\ call' = [op |-> "stop_sync_worker", finishes |-> finishes]
    /\ response' = [status_code |-> 0]
    /\ IF _worker_thread = 0
       THEN UNCHANGED threadVars
       ELSE /\ _worker_stop_event' = TRUE
            /\ threads' = [t \in 1..MaxThreads |->
                              IF /\ t \in {_worker_thread, _scheduler_thread}
                                 /\ is_alive(t)
                                 /\ Joined(t, finishes)
                              THEN [threads[t] EXCEPT !.pc = "done"]
                              ELSE threads[t]]
            /\ _worker_thread' = 0
            /\ _scheduler_thread' = 0
    /\ UNCHANGED <<now, reconVars, audit_events, approvalVars, queueVars, limiterVars,
                   scheduleVars, limiters, publishVars>>

\* the test of the while loop of _worker_loop and _scheduler_loop: the thread
\* returns when the event is set, otherwise it enters an iteration
\* (process_next_sync_job, or the cleanup and process_sync_schedules)
LoopTest(t) ==
    /\ threads[t].pc = "loop"
    /\ call' = [op |-> "thread", step |-> "test", thread |-> t]
    /\ response' = [status_code |-> 0]
    /\ threads' = [threads EXCEPT ![t].pc = IF _worker_stop_event THEN "done" ELSE "busy"]
    /\ UNCHANGED <<now, reconVars, audit_events, approvalVars, queueVars, limiterVars,
                   scheduleVars, limiters, publishVars, _worker_thread, _scheduler_thread,
                   _worker_stop_event>>

\* the iteration ends (and _worker_stop_event.wait returns): back to the test
LoopIteration(t) ==
    /\ threads[t].pc = "busy"
    /\ call' = [op |-> "thread", step |-> "iteration", thread |-> t]
    /\ response' = [status_code |-> 0]
    /\ threads' = [threads EXCEPT ![t].pc = "loop"]
    /\ UNCHANGED <<now, reconVars, audit_events, approvalVars, queueVars, limiterVars,
                   scheduleVars, limiters, publishVars, _worker_thread, _scheduler_thread,
                   _worker_stop_event>>

Start == start_sync_worker
Stop == \E finishes \in SUBSET (1..MaxThreads) : stop_sync_worker(finishes)
Test == \E t \in 1..MaxThreads : LoopTest(t)
Iterate == \E t \in 1..MaxThreads : LoopIteration(t)

ThreadsNext == Start \/ Stop \/ Test \/ Iterate

\* startups and shutdowns of the application in one process
SpecThreads == Init /\ [][ThreadsNext]_vars

\* ------------------------------------ SlidingWindowLimiter (core/security.py)
\* window_seconds of the limiters, in instants of the monotonic clock
window_seconds == 3

\* time passes
MonotonicTick ==
    /\ monotonic < MaxMonotonic
    /\ monotonic' = monotonic + 1
    /\ UNCHANGED <<now, reconVars, audit_events, call, response, approvalVars,
                   queueVars, _events, callers, allowed, scheduleVars,
                   limiters, publishVars, threadVars>>

\* allow(), before the lock: now = time.monotonic(); no two reads of the
\* clock return the same value
AllowRead(c) ==
    /\ callers[c].pc = "idle"
    /\ monotonic < MaxMonotonic
    /\ callers' = [callers EXCEPT ![c] = [pc |-> "lock", now |-> monotonic]]
    /\ monotonic' = monotonic + 1
    /\ call' = [op |-> "allow", step |-> "read", caller |-> c, now |-> monotonic]
    /\ response' = [status_code |-> 0]
    /\ UNCHANGED <<now, reconVars, audit_events, approvalVars, queueVars, _events,
                   allowed, scheduleVars, limiters, publishVars, threadVars>>

\* while queue and queue[0] < cutoff: queue.popleft()
RECURSIVE Pruned(_, _)
Pruned(queue, cutoff) ==
    IF queue # <<>> /\ Head(queue) < cutoff THEN Pruned(Tail(queue), cutoff)
    ELSE queue

\* variant that admits a call while the queue holds max_requests entries
QueueFullNever(queue, max_requests) == FALSE

\* len(queue) >= self.max_requests
QueueFull(queue, max_requests) == Len(queue) >= max_requests

\* allow(), the block under self._lock
AllowLocked(c) ==
    LET caller == callers[c]
        max_requests == Max2(1, settings.global_rate_limit_per_minute)
    IN /\ caller.pc = "lock"
       /\ \E queue \in { Pruned(_events, caller.now - window_seconds) } :
              /\ call' = [op |-> "allow", step |-> "locked", caller |-> c,
                          now |-> caller.now]
              /\ IF QueueFull(queue, max_requests)
                 THEN /\ _events' = queue
                      /\ response' = [status_code |-> 0, allow |-> FALSE]
                      /\ UNCHANGED allowed
                 ELSE /\ _events' = Append(queue, caller.now)
                      /\ response' = [status_code |-> 0, allow |-> TRUE]
                      /\ allowed' = allowed \cup {[now |-> caller.now, returned |-> monotonic]}
       /\ callers' = [callers EXCEPT ![c] = [pc |-> "idle"]]
       /\ UNCHANGED <<now, reconVars, audit_events, approvalVars, queueVars, monotonic,
                      scheduleVars, limiters, publishVars, threadVars>>

Callers == 1..MaxCallers
ReadClock == \E c \in Callers : AllowRead(c)
Locked == \E c \in Callers : AllowLocked(c)

LimiterNext == MonotonicTick \/ ReadClock \/ Locked

\* a limiter of two requests per window
LimiterInit ==
    /\ ReconInit
    /\ settings = [DefaultSettings EXCEPT !.global_rate_limit_per_minute = 2]

\* concurrent allow() calls on one key of one limiter
SpecLimiter == LimiterInit /\ [][LimiterNext]_vars

\* ------------------------------------- schedules (services/sync_jobs.py)
SCHEDULE_NETBOX_IMPORT == "netbox-import"
SCHEDULE_BACKSTAGE_SYNC == "backstage-sync"
JOB_TYPE_NETBOX_IMPORT == "netbox.import"
JOB_TYPE_BACKSTAGE_SYNC == "backstage.sync"

\* the dict of _schedule_definitions, in its order
ScheduleNames == <<SCHEDULE_NETBOX_IMPORT, SCHEDULE_BACKSTAGE_SYNC>>

_schedule_definitions(config) ==
    [n \in {SCHEDULE_NETBOX_IMPORT, SCHEDULE_BACKSTAGE_SYNC} |->
        IF n = SCHEDULE_NETBOX_IMPORT
        THEN [job_type |-> JOB_TYPE_NETBOX_IMPORT,
              enabled |-> config.sync_schedule_netbox_import_enabled,
              interval_seconds |->
                  Max2(30, config.sync_schedule_netbox_import_interval_seconds),
              payload |-> [limit |-> config.sync_schedule_netbox_import_limit,
                           dry_run |-> FALSE, incremental |-> TRUE]]
        ELSE [job_type |-> JOB_TYPE_BACKSTAGE_SYNC,
              enabled |-> config.sync_schedule_backstage_sync_enabled,
              interval_seconds |->
                  Max2(30, config.sync_schedule_backstage_sync_interval_seconds),
              payload |-> [limit |-> config.sync_schedule_backstage_sync_limit,
                           dry_run |-> FALSE]]]

\* <<ready, not_ready_reason>>; a text is blank when strip() leaves nothing
_is_schedule_ready(config, schedule_name) ==
    IF schedule_name = SCHEDULE_NETBOX_IMPORT
    THEN IF config.netbox_api_url = "" THEN <<FALSE, "netbox_api_url_missing">>
         ELSE IF config.netbox_api_token = ""
         THEN <<FALSE, "netbox_api_token_missing">>
         ELSE <<TRUE, "">>
    ELSE IF schedule_name = SCHEDULE_BACKSTAGE_SYNC
    THEN IF ~config.backstage_sync_enabled THEN <<FALSE, "backstage_sync_disabled">>
         ELSE IF config.backstage_sync_url = ""
         THEN <<FALSE, "backstage_sync_url_missing">>
         ELSE IF config.backstage_sync_token = "" /\ config.backstage_sync_secret = ""
         THEN <<FALSE, "backstage_auth_missing">>
         ELSE <<TRUE, "">>
    ELSE <<FALSE, "unknown_schedule">>

\* variant that never sees an inflight job
_has_no_inflight_scheduler_job(rows, job_type) == FALSE

_has_inflight_scheduler_job(rows, job_type) ==
    \E j \in 1..Len(rows) :
        /\ rows[j].job_type = job_type
        /\ rows[j].requested_by = "scheduler"
        /\ rows[j].status \in {"QUEUED", "RUNNING"}

\* variant that lets a schedule wait one instant longer
ScheduleDueLater(next_run, utc_now) == next_run = None \/ next_run[1] < utc_now

\* not (next_run is not None and next_run > now)
ScheduleDue(next_run, utc_now) == next_run = None \/ next_run[1] <= utc_now

isoformat(value) == <<"iso", value>>

ScheduleEvent(event_type, schedule_name, detail) ==
    [event_type |-> event_type, ci_id |-> 0, schedule |-> schedule_name,
     detail |-> detail]

\* _evaluate_schedule on the open transaction db = [jobs, state, events, triggered]
_evaluate_schedule(db, config, schedule_name, utc_now) ==
    LET definition == _schedule_definitions(config)[schedule_name]
        next_run == _parse_iso_datetime(db.state[schedule_name])
        ready == _is_schedule_ready(config, schedule_name)
        next_run_at == utc_now + definition.interval_seconds
        written == [db.state EXCEPT ![schedule_name] = isoformat(next_run_at)]
    IN IF ~definition.enabled THEN db
       ELSE IF ~ScheduleDue(next_run, utc_now) THEN db
       ELSE IF ~ready[1]
       THEN [db EXCEPT !.state = written,
                       !.events = Append(@, ScheduleEvent("integration.schedule.skipped",
                                                          schedule_name, ready[2]))]
       ELSE IF ~_has_inflight_scheduler_job(db.jobs, definition.job_type)
       THEN [db EXCEPT
               !.jobs = Append(@, SyncJob(definition.job_type, "scheduler",
                                          [scheduled |-> TRUE,
                                           schedule_name |-> schedule_name]
                                              @@ definition.payload,
                                          None, utc_now)),
               !.events = @ \o <<ScheduleEvent("integration.job.queued", schedule_name,
                                               definition.job_type),
                                 ScheduleEvent("integration.schedule.triggered",
                                               schedule_name, definition.job_type)>>,
               !.state = written,
               !.triggered = TRUE]
       ELSE [db EXCEPT !.state = written]

\* process_sync_schedules: every schedule in one transaction, then the commit
process_sync_schedules(jobs, state, config, utc_now) ==
    LET db0 == [jobs |-> jobs, state |-> state, events |-> <<>>, triggered |-> FALSE]
        db1 == _evaluate_schedule(db0, config, ScheduleNames[1], utc_now)
    IN IF ~config.sync_scheduler_enabled THEN db0
       ELSE _evaluate_schedule(db1, config, ScheduleNames[2], utc_now)

\* one iteration of _scheduler_loop, the part after the approval cleanup
ProcessSchedules ==
    \E db \in { process_sync_schedules(sync_jobs, schedule_state, settings, now) } :
        /\ Len(db.jobs) <= MaxJobs
        /\ call' = [op |-> "schedules", now |-> now]
        /\ response' = [status_code |-> 0, triggered |-> db.triggered]
        /\ sync_jobs' = db.jobs
        /\ schedule_state' = db.state
        /\ audit_events' = db.events
        /\ job_events' = job_events \o
               [k \in 1..(Len(db.jobs) - Len(sync_jobs)) |->
                   [started |-> 0, retry_scheduled |-> 0, failed |-> 0, succeeded |-> 0]]
        /\ UNCHANGED <<now, reconVars, approvalVars, limiterVars, limiters, publishVars,
                       threadVars, sync_state, workers, telemetry>>

\* the shortest interval a schedule can have goes by
Elapse ==
    /\ now < MaxClock * 30
    /\ now' = now + 30
    /\ UNCHANGED <<cis, identities, collisions, audit_events, call, response>>
    /\ UNCHANGED <<approvalVars, jobVars>>

\* configurations of the two schedules: enabled or not, ready or not
ScheduleSettings ==
    { [DefaultSettings EXCEPT
          !.sync_job_retry_base_seconds = 1,
          !.sync_schedule_netbox_import_enabled = netbox_enabled,
          !.sync_schedule_netbox_import_interval_seconds = 0,
          !.netbox_api_url = netbox_api_url,
          !.netbox_api_token = "t",
          !.sync_schedule_backstage_sync_enabled = TRUE,
          !.sync_schedule_backstage_sync_interval_seconds = 60,
          !.backstage_sync_enabled = backstage_sync_enabled,
          !.backstage_sync_url = "u",
          !.backstage_sync_secret = "s"] :
        netbox_enabled \in BOOLEAN, netbox_api_url \in {"", "u"},
        backstage_sync_enabled \in BOOLEAN }

SchedulerInit ==
    /\ ReconInit
    /\ settings \in ScheduleSettings

\* POST /integrations/netbox/import?asyncJob=true
EnqueueAsync == EnqueueJob(None)

SchedulerNext ==
    \/ Elapse
    \/ EnqueueAsync
    \/ Poll
    \/ ProcessSchedules

\* the scheduler thread, the worker thread and asyncJob requests
SpecScheduler == SchedulerInit /\ [][SchedulerNext]_vars

\* ------------------------------------- payload hashes (core/security.py)
\* what ApprovalCreateRequest.payload holds for a JSON value: None for null
HashPayloads == {None, Some([a |-> 1, b |-> 2]), Some([a |-> 2])}
HashBodies ==
    {"", "null", " null", BodyAB, BodyBA, "{\"a\":2}", "{ \"a\" : 2 }", "{", "a=2"}
HashContentTypes ==
    {None, Some("application/json"), Some("Application/JSON; charset=utf-8"),
     Some("text/plain")}

\* the body as _normalize_json_bytes rewrites it, when it parses
CanonicalBody(body_bytes) ==
    IF json_loads(body_bytes).ok THEN _normalize_json_bytes(json_loads(body_bytes).value)
    ELSE body_bytes

\* create_approval stores the hash of the payload object; the gate hashes the
\* body of the mutating request, and the canonical form of that body
HashPayload(payload, body, content_type) ==
    /\ call' = [op |-> "hash", payload |-> payload, body |-> body,
                content_type |-> content_type]
    /\ response' = [status_code |-> 0,
                    stored |-> canonical_payload_hash_from_object(payload),
                    computed |-> canonical_payload_hash(body, content_type),
                    recomputed |-> canonical_payload_hash(CanonicalBody(body),
                                                          content_type)]
    /\ UNCHANGED <<now, reconVars, audit_events, approvalVars, jobVars>>

Hash ==
    \E payload \in HashPayloads, body \in HashBodies, content_type \in HashContentTypes :
        HashPayload(payload, body, content_type)

\* the two hash functions over payloads and bodies
SpecHash == Init /\ [][Hash]_vars

\* ------------------------- the stages of a mutating request (main.py, security.py)
PathPrefixes ==
    [ingest |-> <<"/", "i", "n", "g", "e", "s", "t">>,
     integrations |-> <<"/", "i", "n", "t", "e", "g", "r", "a", "t", "i", "o", "n", "s">>,
     relationships |-> <<"/", "r", "e", "l", "a", "t", "i", "o", "n", "s", "h", "i", "p", "s">>,
     cis |-> <<"/", "c", "i", "s">>,
     governance |-> <<"/", "g", "o", "v", "e", "r", "n", "a", "n", "c", "e">>,
     lifecycle |-> <<"/", "l", "i", "f", "e", "c", "y", "c", "l", "e">>,
     approvals |-> ApprovalsPrefix]

_mutation_rate_limit_for_path(path) ==
    Max2(1,
         IF startswith(path, PathPrefixes.ingest)
         THEN settings.mutating_rate_limit_ingest_per_minute
         ELSE IF startswith(path, PathPrefixes.integrations)
         THEN settings.mutating_rate_limit_integrations_per_minute
         ELSE IF startswith(path, PathPrefixes.relationships)
         THEN settings.mutating_rate_limit_relationships_per_minute
         ELSE IF startswith(path, PathPrefixes.cis)
         THEN settings.mutating_rate_limit_cis_per_minute
         ELSE IF startswith(path, PathPrefixes.governance)
         THEN settings.mutating_rate_limit_governance_per_minute
         ELSE IF startswith(path, PathPrefixes.lifecycle)
         THEN settings.mutating_rate_limit_lifecycle_per_minute
         ELSE IF startswith(path, PathPrefixes.approvals)
         THEN settings.mutating_rate_limit_approvals_per_minute
         ELSE settings.mutating_rate_limit_per_minute)

_mutation_payload_limit_for_path(path) ==
    Max2(1,
         IF startswith(path, PathPrefixes.ingest)
         THEN settings.mutating_payload_limit_ingest_bytes
         ELSE IF startswith(path, PathPrefixes.integrations)
         THEN settings.mutating_payload_limit_integrations_bytes
         ELSE IF startswith(path, PathPrefixes.relationships)
         THEN settings.mutating_payload_limit_relationships_bytes
         ELSE IF startswith(path, PathPrefixes.cis)
         THEN settings.mutating_payload_limit_cis_bytes
         ELSE IF startswith(path, PathPrefixes.governance)
         THEN settings.mutating_payload_limit_governance_bytes
         ELSE IF startswith(path, PathPrefixes.lifecycle)
         THEN settings.mutating_payload_limit_lifecycle_bytes
         ELSE IF startswith(path, PathPrefixes.approvals)
         THEN settings.mutating_payload_limit_approvals_bytes
         ELSE settings.mutating_payload_limit_default_bytes)

\* the exception of a stage that goes unnoticed
RefusedNever(status_code) == FALSE

\* a stage raised HTTPException, or the middleware answered by itself: the
\* request ends with that status
Refused(status_code) == status_code # 0

\* limiter.allow(key) by a single caller: the outcome and the deque it leaves
Allow(queue, max_requests, clock) ==
    LET pruned == Pruned(queue, clock - window_seconds)
    IN IF QueueFull(pruned, max_requests) THEN [allow |-> FALSE, queue |-> pruned]
       ELSE [allow |-> TRUE, queue |-> Append(pruned, clock)]

\* the bearer token's fingerprint and the path, or the client's address
global_rate_limit_key(credentials) ==
    IF credentials = None THEN "ip:client"
    ELSE IF credentials = Some("viewer") THEN "token:viewer"
    ELSE "token:operator"

\* the tokens of the configuration: one of an operator, one of a viewer;
\* request.state keeps its defaults when the token is refused
Unauthorized ==
    [status_code |-> 401, service_principal |-> "service:unknown", service_scope |-> "none"]

require_service_auth(credentials) ==
    IF credentials = None THEN Unauthorized
    ELSE IF credentials = Some("operator")
    THEN [status_code |-> 0, service_principal |-> "oidc:alice", service_scope |-> "operator"]
    ELSE IF credentials = Some("viewer")
    THEN [status_code |-> 0, service_principal |-> "oidc:carol", service_scope |-> "viewer"]
    ELSE Unauthorized

Staged(req, stage, pc) == [req EXCEPT !.pc = pc, !.stages = Append(@, stage)]

\* global_rate_limit_middleware
GlobalRateLimit(r, incoming) ==
    LET key == global_rate_limit_key(incoming.credentials)
        result == Allow(limiters.global[key],
                        Max2(1, settings.global_rate_limit_per_minute), monotonic)
        code == IF result.allow THEN 0 ELSE 429
    IN /\ requests[r] = Idle
       /\ call' = [op |-> "mutate", step |-> "global", slot |-> r, incoming |-> incoming]
       /\ response' = [status_code |-> code]
       /\ limiters' = [limiters EXCEPT !.global[key] = result.queue]
       /\ requests' = [requests EXCEPT ![r] =
              IF Refused(code) THEN Idle
              ELSE [kind |-> "mutate", pc |-> "auth", stages |-> <<"global">>,
                    credentials |-> incoming.credentials,
                    content_length |-> incoming.content_length,
                    request |-> incoming.request]]
       /\ UNCHANGED <<now, reconVars, audit_events, settings, approvals, mutations,
                      queueVars, limiterVars, scheduleVars, publishVars, threadVars>>

\* the router's first dependency: require_service_auth
Authenticate(r) ==
    LET req == requests[r]
        auth == require_service_auth(req.credentials)
    IN /\ req.kind = "mutate"
       /\ req.pc = "auth"
       /\ call' = [op |-> "mutate", step |-> "auth", slot |-> r]
       /\ response' = [status_code |-> auth.status_code]
       /\ requests' = [requests EXCEPT ![r] =
              IF Refused(auth.status_code) THEN Idle
              ELSE [Staged(req, "auth", "mutating") EXCEPT
                       !.request.principal = auth.service_principal,
                       !.credentials = Some(auth.service_scope)]]
       /\ UNCHANGED <<now, reconVars, audit_events, settings, approvals, mutations,
                      jobVars>>

\* require_mutation_rate_limit, lines 456-457: require_operator_scope, then
\* _apply_mutation_rate_limit
MutationRateLimit(r) ==
    LET req == requests[r]
        key == req.request.principal
        result == Allow(limiters.mutating[key],
                        _mutation_rate_limit_for_path(req.request.path), monotonic)
        code == IF req.credentials # Some("operator") THEN 403
                ELSE IF result.allow THEN 0 ELSE 429
    IN /\ req.kind = "mutate"
       /\ req.pc = "mutating"
       /\ call' = [op |-> "mutate", step |-> "mutating", slot |-> r]
       /\ response' = [status_code |-> code]
       /\ limiters' = IF code = 403 THEN limiters
                      ELSE [limiters EXCEPT !.mutating[key] = result.queue]
       /\ requests' = [requests EXCEPT ![r] =
              IF Refused(code) THEN Idle ELSE Staged(req, "mutating", "payload")]
       /\ UNCHANGED <<now, reconVars, audit_events, settings, approvals, mutations,
                      queueVars, limiterVars, scheduleVars, publishVars, threadVars>>

\* line 458: _enforce_mutation_payload_limit on the declared content-length
PayloadLimit(r) ==
    LET req == requests[r]
        code == IF req.content_length = None THEN 0
                ELSE IF req.content_length[1]
                            > _mutation_payload_limit_for_path(req.request.path)
                THEN 413 ELSE 0
    IN /\ req.kind = "mutate"
       /\ req.pc = "payload"
       /\ call' = [op |-> "mutate", step |-> "payload", slot |-> r]
       /\ response' = [status_code |-> code]
       /\ requests' = [requests EXCEPT ![r] =
              IF Refused(code) THEN Idle ELSE Staged(req, "payload", "gate")]
       /\ UNCHANGED <<now, reconVars, audit_events, settings, approvals, mutations,
                      jobVars>>

\* line 459: _enforce_maker_checker, db.get and the checks
StageGate(r) ==
    LET req == requests[r]
        gate == _enforce_maker_checker(req.request, approvals, now)
    IN /\ req.kind = "mutate"
       /\ req.pc = "gate"
       /\ call' = [op |-> "mutate", step |-> "gate", slot |-> r, request |-> req.request]
       /\ response' = [status_code |-> gate.status_code]
       /\ requests' = [requests EXCEPT ![r] =
              IF Refused(gate.status_code) THEN Idle
              ELSE [kind |-> "mutate",
                    pc |-> IF gate.approval_id = 0 THEN "handler" ELSE "flush",
                    approval_id |-> gate.approval_id,
                    consumed_at |-> now,
                    stages |-> Append(req.stages, "gate")]]
       /\ UNCHANGED <<now, reconVars, audit_events, settings, approvals, mutations,
                      jobVars>>

\* ------------------------ bulk ingest and its outbound events (routers/ingest.py)
\* the loop of ingest_cis_bulk over the payloads, in the request's session
RECURSIVE ReconcileBulk(_, _, _, _)
ReconcileBulk(acc, source, payloads, utc_now) ==
    IF payloads = <<>> THEN acc
    ELSE LET r == reconcile_ci_payload(acc.db, source, Head(payloads), utc_now)
         IN ReconcileBulk(
                [db |-> r.db,
                 created |-> acc.created + (IF r.created THEN 1 ELSE 0),
                 updated |-> acc.updated + (IF r.created THEN 0 ELSE 1),
                 collisions |-> acc.collisions + r.collisions,
                 events |-> Append(acc.events,
                                   [event_type |-> IF r.created THEN "ci.created"
                                                   ELSE "ci.updated",
                                    ci_id |-> r.ci])],
                source, Tail(payloads), utc_now)

\* a session that keeps its rows whatever dryRun says
SurvivingAlways(db0, db, dry_run) == db

\* db.rollback() on dryRun, db.commit() otherwise: the rows that survive
Surviving(db0, db, dry_run) == IF dry_run THEN db0 ELSE db

\* events that go out whatever dryRun says
PublishedAlways(events, dry_run) == events

\* if not dry_run: for event_type, event_payload in events
Published(events, dry_run) == IF dry_run THEN <<>> ELSE events

\* ingest_cis_bulk up to the commit or the rollback
BulkIngest(source, payloads, dry_run) ==
    \E r \in { ReconcileBulk([db |-> Session(cis, identities, collisions), created |-> 0,
                              updated |-> 0, collisions |-> 0, events |-> <<>>],
                             source, payloads, now) } :
        LET db == Flush(r.db)
            kept == Surviving(Session(cis, identities, collisions), db, dry_run)
        IN /\ bulk.pc = "idle"
           /\ Len(db.cis) <= MaxCIs
           /\ Len(db.collisions) <= MaxCollisions
           /\ call' = [op |-> "bulk", source |-> source, payloads |-> payloads,
                       dry_run |-> dry_run]
           /\ outbox' = <<>>
           /\ IF db.failed
              THEN /\ response' = [status_code |-> 409]
                   /\ UNCHANGED <<bulk, cis, identities, collisions, audit_events>>
              ELSE /\ response' = [status_code |-> 0]
                   /\ bulk' = [pc |-> "publish", dry_run |-> dry_run,
                               payloads |-> payloads,
                               events |-> Published(r.events, dry_run),
                               result |-> [status_code |-> 200,
                                           created |-> r.created,
                                           updated |-> r.updated,
                                           collisions |-> r.collisions,
                                           staged |-> IF dry_run
                                                      THEN r.created + r.updated
                                                      ELSE 0]]
                   /\ cis' = kept.cis
                   /\ identities' = kept.identities
                   /\ collisions' = kept.collisions
                   /\ audit_events' = IF dry_run THEN audit_events ELSE db.audit
           /\ UNCHANGED <<now, approvalVars, queueVars, limiterVars, scheduleVars,
                          limiters, threadVars>>

\* _post_json: nothing is sent without a url; the answer of the upstream, or
\* the failure of the attempt, becomes the status that is returned
_post_json(url, upstream) ==
    IF url = "" THEN [posted |-> FALSE, status |-> "skipped"]
    ELSE IF upstream = "sent" THEN [posted |-> TRUE, status |-> "sent"]
    ELSE IF upstream = "upstream_rejected"
    THEN [posted |-> TRUE, status |-> "failed", error |-> "upstream_rejected"]
    ELSE [posted |-> TRUE, status |-> "failed", error |-> "delivery_failed"]

\* publish_ci_event for the next event of the list
PublishCiEvent(netbox, backstage) ==
    LET event == Head(bulk.events)
        to_netbox == IF settings.netbox_sync_enabled
                     THEN _post_json(settings.netbox_sync_url, netbox)
                     ELSE [posted |-> FALSE, status |-> "skipped"]
        to_backstage ==
            IF ~settings.backstage_sync_enabled
            THEN [posted |-> FALSE, status |-> "skipped"]
            ELSE IF settings.backstage_sync_token = "" /\ settings.backstage_sync_secret = ""
            THEN [posted |-> FALSE, status |-> "skipped"]
            ELSE _post_json(settings.backstage_sync_url, backstage)
        Posts(target, result) ==
            IF result.posted
            THEN <<[event_type |-> event.event_type, ci_id |-> event.ci_id,
                    target |-> target, status |-> result.status]>>
            ELSE <<>>
    IN /\ bulk.pc = "publish"
       /\ bulk.events # <<>>
       /\ call' = [op |-> "publish", event |-> event, netbox |-> netbox,
                   backstage |-> backstage]
       /\ response' = [status_code |-> 0]
       /\ outbox' = outbox \o Posts("netbox", to_netbox) \o Posts("backstage", to_backstage)
       /\ bulk' = [bulk EXCEPT !.events = Tail(@)]
       /\ UNCHANGED <<now, reconVars, audit_events, approvalVars, queueVars, limiterVars,
                      scheduleVars, limiters, threadVars>>

\* return CIBulkIngestResult(...)
BulkRespond ==
    /\ bulk.pc = "publish"
    /\ bulk.events = <<>>
    /\ call' = [op |-> "respond"]
    /\ response' = bulk.result
    /\ bulk' = [pc |-> "idle"]
    /\ UNCHANGED <<now, reconVars, audit_events, approvalVars, queueVars, limiterVars,
                   scheduleVars, limiters, outbox, threadVars>>

\* one or two payloads, each naming one of two entities
BulkPayloads ==
    LET pool == { CIPayload(p, <<id>>, None) : p \in PayloadProfiles, id \in IdentityPool }
    IN { <<x>> : x \in pool } \cup { <<x, y>> : <<x, y>> \in { z \in pool \X pool : z[1] # z[2] } }

Upstreams == {"sent", "upstream_rejected", "delivery_failed"}

\* both upstreams are configured; Backstage may be switched off
PublishInit ==
    /\ ReconInit
    /\ settings \in { [DefaultSettings EXCEPT
                          !.netbox_sync_enabled = TRUE, !.netbox_sync_url = "u",
                          !.backstage_sync_enabled = enabled,
                          !.backstage_sync_url = "u", !.backstage_sync_token = "t"] :
                      enabled \in BOOLEAN }

Bulk ==
    \E payloads \in BulkPayloads, dry_run \in BOOLEAN :
        BulkIngest("manual", payloads, dry_run)

Publish == \E netbox \in Upstreams, backstage \in Upstreams : PublishCiEvent(netbox, backstage)

PublishNext == Bulk \/ Publish \/ BulkRespond

\* bulk ingests, one at a time, and the deliveries of their events
SpecPublish == PublishInit /\ [][PublishNext]_vars

MergeNext == Tick \/ IngestMerge
CollideNext == IngestCollide
GovernanceNext == IngestCollideOne \/ ResolveCollision \/ ReopenCollision

Create(bodies) ==
    \E request_body \in bodies : CreateApproval("oidc:alice", request_body)

StartDecision(S) ==
    \E r \in S, kind \in {"approve", "reject"}, principal \in Principals,
       approval_id \in 1..MaxApprovals :
        DecideSweep(r, kind, principal, approval_id)

ReadDecision(S) == \E r \in S : DecideRead(r)
WriteDecision(S) == \E r \in S : DecideWrite(r)
Gate(S, reqs) == \E r \in S, request \in reqs : GateCheck(r, request)
FlushGate(S) == \E r \in S : GateFlush(r)
Commit(S) == \E r \in S : HandlerCommit(r)
Rollback(S) == \E r \in S, status_code \in HandlerOutcomes : HandlerRollback(r, status_code)

\* one request at a time, over the inputs of the gate
GateNext ==
    \/ Tick
    \/ ExpirySweep
    \/ Create(GateBodies)
    \/ StartDecision({1})
    \/ ReadDecision({1})
    \/ WriteDecision({1})
    \/ Gate({1}, GateRequests)
    \/ FlushGate({1})
    \/ Commit({1})
    \/ Rollback({1})

\* concurrent requests about one approval
RaceNext ==
    \/ Tick
    \/ ExpirySweep
    \/ Create(RaceBodies)
    \/ StartDecision(Slots)
    \/ ReadDecision(Slots)
    \/ WriteDecision(Slots)
    \/ Gate(Slots, RaceRequests)
    \/ FlushGate(Slots)
    \/ Commit(Slots)
    \/ Rollback(Slots)

SpecGate == GateInit /\ [][GateNext]_vars
SpecRace == RaceInit /\ [][RaceNext]_vars

\* requests with and without a token, a declared length and an approval id
StageRequests ==
    { [credentials |-> credentials, content_length |-> content_length,
       request |-> Request("service:unknown", approval_id, "POST", GatedPath, <<>>, "",
                           None)] :
        credentials \in {None, Some("viewer"), Some("operator")},
        content_length \in {Some(0), Some(2)},
        approval_id \in 0..MaxApprovals }

StagesInit ==
    /\ ReconInit
    /\ settings = [DefaultSettings EXCEPT !.maker_checker_enabled = TRUE,
                                          !.global_rate_limit_per_minute = 2,
                                          !.mutating_rate_limit_per_minute = 1,
                                          !.mutating_payload_limit_default_bytes = 1]

\* a whole window goes by: every entry of every deque is older than the cutoff
WindowPasses ==
    /\ monotonic < MaxMonotonic
    /\ monotonic' = monotonic + window_seconds + 1
    /\ UNCHANGED <<now, reconVars, audit_events, call, response, approvalVars,
                   queueVars, _events, callers, allowed, scheduleVars, limiters,
                   publishVars, threadVars>>

StagesNext ==
    \/ WindowPasses
    \/ Create(RaceBodies)
    \/ StartDecision({1})
    \/ ReadDecision({1})
    \/ WriteDecision({1})
    \/ \E incoming \in StageRequests : GlobalRateLimit(1, incoming)
    \/ Authenticate(1)
    \/ MutationRateLimit(1)
    \/ PayloadLimit(1)
    \/ StageGate(1)
    \/ FlushGate({1})
    \/ Commit({1})
    \/ Rollback({1})

\* one mutating request at a time through every stage
SpecStages == StagesInit /\ [][StagesNext]_vars

\* reconciliation of payloads that name one entity
SpecMerge == Init /\ [][MergeNext]_vars
\* reconciliation of colliding payloads
SpecCollide == Init /\ [][CollideNext]_vars
\* reconciliation of colliding payloads, with resolve and reopen
SpecGovernance == Init /\ [][GovernanceNext]_vars

\* ------------------------------------------------------- reconciler claims
\* the latest step was a committed reconcile that matched an existing CI
CommittedIngestStep ==
    /\ now' = now
    /\ call'.op = "ingest"
    /\ ~call'.dry_run
    /\ response'.status_code = 200

IncomingLastSeen(payload, utc_now) ==
    IF payload.last_seen_at = None THEN utc_now
    ELSE normalize_utc_naive(payload.last_seen_at)[1]

\* C1: a reconcile that matches a CI leaves its last_seen_at equal to
\* max(previous last_seen_at, incoming last_seen_at or now), so last_seen_at
\* never decreases, also when the payload's last_seen_at is older.
C1_LastSeenIsMax ==
    [][(CommittedIngestStep /\ response'.created = 0) =>
          cis'[response'.ci].last_seen_at =
              Max2(cis[response'.ci].last_seen_at, IncomingLastSeen(call'.payload, now))]_vars

IdentityUnique ==
    \A r1 \in identities, r2 \in identities :
        (r1.scheme = r2.scheme /\ r1.value = r2.value) => r1.ci_id = r2.ci_id

\* C2: every (scheme, value) is bound to at most one CI, and a bound identity
\* stays with its owner through every reconcile, successful or failed.
C2_IdentityBoundOnce ==
    /\ []IdentityUnique
    /\ [][\A r \in identities : r \in identities']_vars

\* a committed reconcile has claimed an identity that another CI owns, and
\* the identity is still with that CI
C2_Witness ==
    /\ call.op = "ingest"
    /\ response.status_code = 200
    /\ ~call.dry_run
    /\ \E k \in 1..Len(call.payload.identities) :
           \E r \in identities :
               /\ r.scheme = call.payload.identities[k].scheme
               /\ r.value = call.payload.identities[k].value
               /\ r.ci_id # response.ci

SameQuadruple(a, b) ==
    /\ a.scheme = b.scheme
    /\ a.value = b.value
    /\ a.existing_ci_id = b.existing_ci_id
    /\ a.incoming_ci_id = b.incoming_ci_id

\* C3: at most one OPEN collision row per (scheme, value, existing_ci_id,
\* incoming_ci_id) after any sequence of reconcile, resolve and reopen.
C3_OneOpenPerQuadruple ==
    \A i \in 1..Len(collisions), j \in 1..Len(collisions) :
        (i # j /\ collisions[i].status = "OPEN" /\ collisions[j].status = "OPEN")
            => ~SameQuadruple(collisions[i], collisions[j])

\* ---------------------------------------------------- maker-checker claims
\* C4: an approval authorizes at most one committed mutation, whatever the
\* interleaving of the concurrent requests that carry its id.
C4_OneCommitPerApproval ==
    \A k \in 1..Len(mutations) : mutations[k] <= 1

NotSelfDecided(row) ==
    row.decided_by = None \/ row.decided_by[1] # row.requested_by

\* the step is the check of a decision on an approval its requester asked for
SelfDecisionStep ==
    /\ now' = now
    /\ call'.op \in {"approve", "reject"}
    /\ call'.step = "read"
    /\ call'.approval_id <= Len(approvals)
    /\ approvals[call'.approval_id].requested_by = call'.principal

GateConditions(request) ==
    /\ request.approval_id \in 1..Len(approvals)
    /\ LET approval == approvals[request.approval_id]
       IN /\ approval.status = "APPROVED"
          /\ approval.expires_at > now
          /\ settings.maker_checker_bind_requester =>
                 approval.requested_by = request.principal
          /\ approval.method = upper(request.method)
          /\ approval.request_path = canonical_request_path(request)
          /\ approval.payload_hash =
                 canonical_payload_hash(request.body, request.content_type)

GateStep ==
    /\ now' = now
    /\ call'.op = "mutate"
    /\ call'.step = "gate"
    /\ settings.maker_checker_enabled

\* C6: a mutating request passes the gate only if its approval exists, is
\* APPROVED, expires after now, was requested by the caller (when requester
\* binding is on) and has the request's method, canonical path and query and
\* canonical payload hash; a request that fails a check is rejected, its
\* handler does not run and the approvals are unchanged.
C6_GatePassesOnlyMatching ==
    [][GateStep =>
          /\ response'.status_code = 0 => GateConditions(call'.request)
          /\ ~GateConditions(call'.request) =>
                 /\ response'.status_code \in {403, 404, 409, 428}
                 /\ requests'[call'.slot] = Idle
                 /\ approvals' = approvals
                 /\ mutations' = mutations]_vars

\* a request whose JSON body needed canonicalisation has passed the gate
C6_Witness ==
    /\ call.op = "mutate"
    /\ call.step = "gate"
    /\ response.status_code = 0
    /\ call.request.body = BodyBA
    /\ requests[call.slot].kind = "mutate"
    /\ requests[call.slot].pc = "flush"
    /\ requests[call.slot].approval_id = call.request.approval_id

C8_StatusTransitions ==
    [][\A k \in 1..Len(approvals) :
          approvals'[k].status # approvals[k].status =>
              <<approvals[k].status, approvals'[k].status>> \in
                  { <<"PENDING", "APPROVED">>, <<"PENDING", "REJECTED">>,
                    <<"APPROVED", "CONSUMED">> }]_vars

\* C9: once a request has consumed an approval and committed, every later
\* request with that approval id is refused with 409 at the gate, before its
\* handler runs, and changes nothing.
C9_ConsumedStaysRefused ==
    [][(/\ now' = now
        /\ call'.op = "mutate"
        /\ call'.step = "gate"
        /\ call'.request.approval_id \in 1..Len(mutations)
        /\ mutations[call'.request.approval_id] >= 1) =>
           /\ response'.status_code = 409
           /\ requests'[call'.slot] = Idle
           /\ approvals' = approvals
           /\ mutations' = mutations]_vars

\* -------------------------------------------------------- sync-job claims
\* C10: a sync job's status changes only QUEUED -> RUNNING,
\* RUNNING -> SUCCEEDED, RUNNING -> FAILED and, as a retry and only when
\* attempt_count < max_attempts, RUNNING -> QUEUED; SUCCEEDED and FAILED are
\* never left.
C10_JobTransitions ==
    [][\A j \in 1..Len(sync_jobs) :
          sync_jobs'[j].status # sync_jobs[j].status =>
              \/ <<sync_jobs[j].status, sync_jobs'[j].status>> \in
                     { <<"QUEUED", "RUNNING">>, <<"RUNNING", "SUCCEEDED">>,
                       <<"RUNNING", "FAILED">> }
              \/ /\ sync_jobs[j].status = "RUNNING"
                 /\ sync_jobs'[j].status = "QUEUED"
                 /\ sync_jobs[j].attempt_count < sync_jobs[j].max_attempts]_vars

\* a job has been retried and then failed for good, another has succeeded
C10_Witness ==
    /\ \E j \in 1..Len(sync_jobs) :
           sync_jobs[j].status = "FAILED" /\ sync_jobs[j].attempt_count >= 2
    /\ \E j \in 1..Len(sync_jobs) : sync_jobs[j].status = "SUCCEEDED"

AttemptsInRange ==
    \A j \in 1..Len(sync_jobs) :
        /\ sync_jobs[j].max_attempts >= 1
        /\ sync_jobs[j].attempt_count >= 0
        /\ sync_jobs[j].attempt_count <= sync_jobs[j].max_attempts

\* C11: every sync job has 0 <= attempt_count <= max_attempts with
\* max_attempts >= 1 in every reachable state, and a job's attempt_count
\* never decreases.
C11_AttemptsBounded ==
    /\ []AttemptsInRange
    /\ [][\A j \in 1..Len(sync_jobs) :
             sync_jobs'[j].attempt_count >= sync_jobs[j].attempt_count]_vars

\* the delay after attempt n: base * 2^(n - 1), with a base of at least 1
Backoff(n) ==
    Max2(1, settings.sync_job_retry_base_seconds) * 2 ^ (n - 1)

\* C12: when attempt n of a job fails with n < max_attempts the job returns
\* to QUEUED with next_run_at = failure time + base * 2^(n - 1), and it is
\* not claimed again before that instant.
C12_BackoffRespected ==
    [][\A j \in 1..Len(sync_jobs) :
          /\ (sync_jobs[j].status = "RUNNING" /\ sync_jobs'[j].status = "QUEUED") =>
                 sync_jobs'[j].next_run_at = now + Backoff(sync_jobs[j].attempt_count)
          /\ (sync_jobs[j].status = "QUEUED" /\ sync_jobs'[j].status = "RUNNING") =>
                 sync_jobs[j].next_run_at <= now]_vars

\* C13: a job whose every execution raises ends in FAILED after exactly
\* max_attempts executions, with max_attempts - 1 retry_scheduled events, one
\* integration.job.failed event and one sync.job_failed telemetry tick; a
\* retry records no telemetry tick.
C13_FailedAfterMaxAttempts ==
    /\ [](\A j \in 1..Len(sync_jobs) :
             (sync_jobs[j].status = "FAILED" /\ job_events[j].succeeded = 0) =>
                 /\ job_events[j].started = sync_jobs[j].max_attempts
                 /\ job_events[j].retry_scheduled = sync_jobs[j].max_attempts - 1
                 /\ job_events[j].failed = 1)
    /\ [][\A j \in 1..Len(sync_jobs) :
             /\ (sync_jobs[j].status = "RUNNING" /\ sync_jobs'[j].status = "FAILED") =>
                    telemetry' = telemetry + 1
             /\ (sync_jobs[j].status = "RUNNING" /\ sync_jobs'[j].status = "QUEUED") =>
                    telemetry' = telemetry]_vars

Executing(w, j) == workers[w].pc \in {"run", "complete"} /\ workers[w].job_id = j

LostClaimStep ==
    /\ call'.op = "worker"
    /\ call'.step = "claim"
    /\ now' = now
    /\ ~response'.claimed

\* C14: no job is being executed by two workers at the same time, and a worker
\* whose claim UPDATE matched no row returns to polling and changes nothing.
C14_ClaimExclusive ==
    /\ [](\A v, w \in Workers : \A j \in 1..Len(sync_jobs) :
              (Executing(v, j) /\ Executing(w, j)) => v = w)
    /\ [][LostClaimStep =>
             /\ workers'[call'.worker].pc = "idle"
             /\ UNCHANGED <<sync_jobs, audit_events, job_events, telemetry>>
             /\ \A v \in Workers \ {call'.worker} : workers'[v] = workers[v]]_vars

\* a worker has just lost its claim on a job that the other worker is executing
C14_Witness ==
    /\ call.op = "worker"
    /\ call.step = "claim"
    /\ ~response.claimed
    /\ \E v \in Workers \ {call.worker} : Executing(v, call.job_id)

JobSettled(j) ==
    /\ Len(sync_jobs) >= j
    /\ sync_jobs[j].status \in {"SUCCEEDED", "FAILED"}

\* a retry scheduled after the last instant of the bounded clock
DueAfterHorizon(j) ==
    /\ Len(sync_jobs) >= j
    /\ sync_jobs[j].status = "QUEUED"
    /\ sync_jobs[j].next_run_at > MaxClock

\* C15: while a worker keeps polling, every enqueued job eventually reaches
\* SUCCEEDED or FAILED (or waits for a retry later than the modelled clock
\* reaches), also when the worker was killed while the job was RUNNING.
C15_EveryJobTerminates ==
    \A j \in 1..MaxJobs :
        (Len(sync_jobs) >= j) ~> (JobSettled(j) \/ DueAfterHorizon(j))

\* the records the upstream holds for the query of this run
Returned(inventory, watermark, incremental) ==
    Matching(inventory, IF incremental THEN watermark ELSE None)

\* C16: a run changes an endpoint's watermark only when it is incremental and
\* not a dry run and it reconciled every record the upstream returned for the
\* endpoint; a run that the item limit cut short leaves the watermark alone.
C16_WatermarkOnlyWhenComplete ==
    [][call'.op = "netbox_import" =>
         /\ sync_state'.devices # sync_state.devices =>
               /\ call'.incremental
               /\ ~call'.dry_run
               /\ response'.status_code = 200
               /\ response'.reconciled.devices =
                      Len(Returned(call'.devices, sync_state.devices, TRUE))
         /\ sync_state'.vms # sync_state.vms =>
               /\ call'.incremental
               /\ ~call'.dry_run
               /\ response'.status_code = 200
               /\ response'.reconciled.vms =
                      Len(Returned(call'.vms, sync_state.vms, TRUE))]_vars

\* position in source_precedence counted from 0; after the list when unlisted
Rank(source) ==
    IF \E k \in 1..Len(source_precedence) : source_precedence[k] = source
    THEN (CHOOSE k \in 1..Len(source_precedence) : source_precedence[k] = source) - 1
    ELSE Len(source_precedence)

Emitted(events, event_type, ci_id) ==
    \E k \in 1..Len(events) :
        events[k].event_type = event_type /\ events[k].ci_id = ci_id

\* C17: a reconcile that matches a CI overwrites name, ci_type, owner,
\* attributes and source and emits ci.updated exactly when the incoming
\* source's rank is lower than or equal to the existing source's rank;
\* otherwise the five fields stay and ci.reconcile.skipped_by_precedence is
\* emitted.
C17_PrecedenceDecidesOverwrite ==
    [][(CommittedIngestStep /\ response'.created = 0) =>
          LET old == cis[response'.ci]
              new == cis'[response'.ci]
              payload == call'.payload
          IN IF Rank(call'.source) <= Rank(old.source)
             THEN /\ new.name = payload.name
                  /\ new.ci_type = payload.ci_type
                  /\ new.owner = payload.owner
                  /\ new.attributes = payload.attributes
                  /\ new.source = call'.source
                  /\ Emitted(audit_events', "ci.updated", response'.ci)
                  /\ ~Emitted(audit_events', "ci.reconcile.skipped_by_precedence", response'.ci)
             ELSE /\ new.name = old.name
                  /\ new.ci_type = old.ci_type
                  /\ new.owner = old.owner
                  /\ new.attributes = old.attributes
                  /\ new.source = old.source
                  /\ Emitted(audit_events', "ci.reconcile.skipped_by_precedence", response'.ci)
                  /\ ~Emitted(audit_events', "ci.updated", response'.ci)]_vars

\* an unlisted source has just overwritten a CI on a tie with itself
C17_Witness ==
    /\ call.op = "ingest"
    /\ ~call.dry_run
    /\ response.status_code = 200
    /\ response.created = 0
    /\ call.source = "connector"
    /\ cis[response.ci].source = "connector"
    /\ cis[response.ci].name = call.payload.name
    /\ Emitted(audit_events, "ci.updated", response.ci)

\* C18: whenever a CI's source changes, by a reconcile or by a drift
\* resolution, the new source's rank is lower than or equal to the rank of
\* the source it replaces.
C18_SourceOnlyByPrecedence ==
    [][\A ci_id \in 1..Len(cis) :
          cis'[ci_id].source # cis[ci_id].source =>
              Rank(cis'[ci_id].source) <= Rank(cis[ci_id].source)]_vars

\* the CI an identity is bound to, 0 when it is bound to none
Owner(rows, ident) ==
    IF \E r \in rows : r.scheme = ident.scheme /\ r.value = ident.value
    THEN (CHOOSE r \in rows : r.scheme = ident.scheme /\ r.value = ident.value).ci_id
    ELSE 0

\* the owner of the first identity of the list that has one
FirstOwner(rows, idents) ==
    LET bound == { k \in 1..Len(idents) : Owner(rows, idents[k]) # 0 }
    IN IF bound = {} THEN 0
       ELSE Owner(rows, idents[CHOOSE k \in bound : \A j \in bound : k <= j])

OtherOwners(rows, idents) ==
    { Owner(rows, idents[k]) : k \in 1..Len(idents) } \ {0, FirstOwner(rows, idents)}

OpenCollision(rows, existing_ci_id, incoming_ci_id) ==
    \E k \in 1..Len(rows) :
        /\ rows[k].status = "OPEN"
        /\ rows[k].existing_ci_id = existing_ci_id
        /\ rows[k].incoming_ci_id = incoming_ci_id

\* C19: a committed reconcile whose payload matches CI B through its first
\* bound identity and also carries an identity of another CI A returns B,
\* created = False and at least one collision, and leaves an OPEN collision
\* with existing = B and incoming = A.
C19_ConflictRecordsCollision ==
    [][(/\ call'.op = "ingest"
        /\ ~call'.dry_run
        /\ now' = now
        /\ OtherOwners(identities, call'.payload.identities) # {}) =>
          /\ response'.status_code = 200
          /\ response'.created = 0
          /\ response'.ci = FirstOwner(identities, call'.payload.identities)
          /\ response'.collisions >= 1
          /\ \A a \in OtherOwners(identities, call'.payload.identities) :
                 OpenCollision(collisions', response'.ci, a)]_vars

\* a committed reconcile has matched one CI and carried another CI's identity
C19_Witness ==
    /\ call.op = "ingest"
    /\ ~call.dry_run
    /\ response.status_code = 200
    /\ response.created = 0
    /\ response.collisions >= 1
    /\ OtherOwners(identities, call.payload.identities) # {}
    /\ response.ci = FirstOwner(identities, call.payload.identities)
    /\ \E a \in OtherOwners(identities, call.payload.identities) :
           OpenCollision(collisions, response.ci, a)

\* whole days in a number of clock instants, rounded down
WholeDays(ticks) ==
    CHOOSE d \in (0 - Max2(ticks, 0 - ticks) - 1)..Max2(ticks, 0 - ticks) :
        d * TicksPerDay <= ticks /\ ticks < (d + 1) * TicksPerDay

TargetStatus(days) ==
    CASE days >= settings.lifecycle_retired_days -> "RETIRED"
      [] days < settings.lifecycle_retired_days
           /\ days >= settings.lifecycle_review_days -> "RETIREMENT_REVIEW"
      [] days < settings.lifecycle_review_days
           /\ days >= settings.lifecycle_staging_days -> "STAGING"
      [] days < settings.lifecycle_staging_days -> "ACTIVE"

\* C20: after a lifecycle run at clock now every CI's status is the target of
\* its whole days of inactivity: RETIRED from retired_days, RETIREMENT_REVIEW
\* from review_days, STAGING from staging_days, else ACTIVE, whatever the
\* status was before.
C20_LifecycleSetsTarget ==
    [][(call'.op = "lifecycle" /\ now' = now) =>
          /\ Len(cis') = Len(cis)
          /\ \A ci_id \in 1..Len(cis) :
                 /\ cis'[ci_id].status =
                        TargetStatus(WholeDays(now - cis[ci_id].last_seen_at))
                 /\ cis'[ci_id].last_seen_at = cis[ci_id].last_seen_at]_vars

\* a run has just moved a CI from RETIRED straight back to ACTIVE
C20_Witness ==
    /\ call.op = "lifecycle"
    /\ \E k \in 1..Len(audit_events) :
           /\ audit_events[k].event_type = "ci.lifecycle.transitioned"
           /\ audit_events[k].from = "RETIRED"
           /\ audit_events[k].to = "ACTIVE"
           /\ cis[audit_events[k].ci_id].status = "ACTIVE"

\* the latest request was a lifecycle run at the present clock value, and the
\* step is another lifecycle run
RepeatedLifecycleStep ==
    /\ call.op = "lifecycle"
    /\ call.now = now
    /\ call'.op = "lifecycle"
    /\ now' = now

\* C21: a lifecycle run that directly follows another one at the same clock
\* value changes no status, reports zero transitions and appends no
\* ci.lifecycle.transitioned event.
C21_LifecycleIdempotent ==
    [][RepeatedLifecycleStep =>
          /\ response'.transitioned = 0
          /\ cis' = cis
          /\ \A k \in 1..Len(audit_events') :
                 audit_events'[k].event_type # "ci.lifecycle.transitioned"]_vars

\* a run at the present clock value found nothing to change although a CI
\* had been moved out of ACTIVE by an earlier run
C21_Witness ==
    /\ call.op = "lifecycle"
    /\ call.now = now
    /\ response.transitioned = 0
    /\ \E ci_id \in 1..Len(cis) : cis[ci_id].status # "ACTIVE"
    /\ \A k \in 1..Len(audit_events) :
           audit_events[k].event_type # "ci.lifecycle.transitioned"

\* the calls that returned True in the window that starts at instant x
AdmittedIn(x) ==
    { a \in allowed : x <= a.returned /\ a.returned < x + window_seconds }

\* C22: in every window of window_seconds, at most max_requests allow() calls
\* have returned True, however the calls interleave.
C22_LimiterConservative ==
    \A x \in 0..MaxMonotonic :
        Cardinality(AdmittedIn(x)) <= Max2(1, settings.global_rate_limit_per_minute)

InflightSchedulerJobs(job_type) ==
    { j \in 1..Len(sync_jobs) :
        /\ sync_jobs[j].job_type = job_type
        /\ sync_jobs[j].requested_by = "scheduler"
        /\ sync_jobs[j].status \in {"QUEUED", "RUNNING"} }

ScheduleKeys == {SCHEDULE_NETBOX_IMPORT, SCHEDULE_BACKSTAGE_SYNC}

\* the schedule is enabled and has no stored next_run_at or one that is reached
EnabledAndDue(n) ==
    /\ _schedule_definitions(settings)[n].enabled
    /\ schedule_state[n] = None \/ schedule_state[n][2] <= now

JobsOfType(rows, job_type) == { j \in 1..Len(rows) : rows[j].job_type = job_type }

EventsOf(rows, n) ==
    { k \in 1..Len(rows) : "schedule" \in DOMAIN rows[k] /\ rows[k].schedule = n }

EvaluationStep ==
    /\ settings.sync_scheduler_enabled
    /\ call'.op = "schedules"
    /\ now' = now

\* C24: an evaluation of an enabled, due schedule stores next_run_at = now +
\* interval in every case; when the schedule is not ready it enqueues no job and
\* emits exactly one integration.schedule.skipped event with the reason; an
\* evaluation of a disabled or not yet due schedule changes nothing.
C24_EvaluationAdvancesNextRun ==
    [][EvaluationStep =>
          \A n \in ScheduleKeys :
              LET definition == _schedule_definitions(settings)[n]
                  ready == _is_schedule_ready(settings, n)
                  emitted == EventsOf(audit_events', n)
              IN IF EnabledAndDue(n)
                 THEN /\ schedule_state'[n] = <<"iso", now + definition.interval_seconds>>
                      /\ ~ready[1] =>
                            /\ JobsOfType(sync_jobs', definition.job_type)
                                  = JobsOfType(sync_jobs, definition.job_type)
                            /\ Cardinality(emitted) = 1
                            /\ \A k \in emitted :
                                   /\ audit_events'[k].event_type
                                          = "integration.schedule.skipped"
                                   /\ audit_events'[k].detail = ready[2]
                 ELSE /\ schedule_state'[n] = schedule_state[n]
                      /\ JobsOfType(sync_jobs', definition.job_type)
                            = JobsOfType(sync_jobs, definition.job_type)
                      /\ emitted = {}]_vars

\* one evaluation after the first: one schedule skipped as not ready, the other
\* suppressed by its inflight job, both with a new next_run_at
C24_Witness ==
    /\ call.op = "schedules"
    /\ now > 0
    /\ ~response.triggered
    /\ \E k \in 1..Len(audit_events) :
           audit_events[k].event_type = "integration.schedule.skipped"
    /\ \E n \in ScheduleKeys :
           /\ _is_schedule_ready(settings, n)[1]
           /\ schedule_state[n] = <<"iso", now + _schedule_definitions(settings)[n].interval_seconds>>
           /\ InflightSchedulerJobs(_schedule_definitions(settings)[n].job_type) # {}

SweepStep ==
    /\ call'.op = "sweep"
    /\ now' = now

PendingAndExpired(k) ==
    approvals[k].status = "PENDING" /\ approvals[k].expires_at <= now

Serializations(payload) ==
    IF payload = None THEN {"null", " null"}
    ELSE IF payload = Some([a |-> 1, b |-> 2]) THEN {BodyAB, BodyBA}
    ELSE {"{\"a\":2}", "{ \"a\" : 2 }"}

\* C26: for every JSON value, null included, the hash stored at creation equals
\* the hash the gate computes for any JSON serialization of the value sent as
\* application/json, and hashing the canonical body gives the same digest.
C26_HashAgrees ==
    (/\ call.op = "hash"
     /\ call.body \in Serializations(call.payload)
     /\ call.content_type = Some("application/json"))
        => /\ response.stored = response.computed
           /\ response.recomputed = response.computed

\* the stages that precede a stage, in the order of the claim; the flush of the
\* consumed approval belongs to the gate
Before(step) ==
    CASE step = "global" -> <<>>
      [] step = "auth" -> <<"global">>
      [] step = "mutating" -> <<"global", "auth">>
      [] step = "payload" -> <<"global", "auth", "mutating">>
      [] step = "gate" -> <<"global", "auth", "mutating", "payload">>
      [] OTHER -> <<"global", "auth", "mutating", "payload", "gate">>

StageStep ==
    /\ call'.op = "mutate"
    /\ now' = now
    /\ monotonic' = monotonic

StagesPassed(req) == IF req = Idle THEN <<>> ELSE req.stages

\* C27: a stage of a mutating request runs only after every earlier stage of the
\* order global rate limit, authentication, mutating rate limit, payload limit,
\* approval gate, handler body and commit has passed; a refused request runs no
\* later stage, and one refused by the mutating rate limit or the payload limit
\* consumes no approval and runs no handler.
C27_StagesInOrder ==
    [][StageStep =>
          LET r == call'.slot
          IN /\ StagesPassed(requests[r]) = Before(call'.step)
             /\ response'.status_code \notin {0, 200} => requests'[r] = Idle
             /\ (call'.step \in {"global", "auth", "mutating", "payload"}) =>
                    /\ approvals' = approvals
                    /\ mutations' = mutations
             /\ (call'.step \in {"mutating", "payload"}
                   /\ response'.status_code \in {429, 413}) =>
                    /\ requests'[r] = Idle
                    /\ approvals' = approvals
                    /\ mutations' = mutations]_vars

\* the mutating rate limit has refused a request that holds an APPROVED approval
C27_Witness ==
    /\ call.op = "mutate"
    /\ call.step = "mutating"
    /\ response.status_code = 429
    /\ requests[1] = Idle
    /\ \E k \in 1..Len(approvals) : approvals[k].status = "APPROVED"
    /\ \E k \in 1..Len(approvals) : mutations[k] = 0

\* a step that POSTs an event to an upstream
DeliveryStep == outbox' # outbox /\ outbox' # <<>>

\* the rows of the store and the audit rows of the latest committed transaction
Persistent == <<cis, identities, collisions, audit_events>>

C29_DryRunLeavesNoTrace ==
    [][/\ (call'.op = "bulk" /\ call'.dry_run /\ response'.status_code # 409) =>
            /\ Persistent' = Persistent
            /\ bulk'.pc = "publish"
            /\ bulk'.dry_run
       /\ (bulk.pc = "publish" /\ bulk.dry_run) =>
            /\ Persistent' = Persistent
            /\ outbox' = <<>>
            /\ call'.op = "respond"
            /\ response'.status_code = 200
            /\ response'.staged = Len(bulk.payloads)]_vars

\* a dry run of two payloads that would have created two CIs in an empty store
\* has answered staged = 2, and the store is still empty
C29_Witness ==
    /\ call.op = "respond"
    /\ response.status_code = 200
    /\ response.staged = 2
    /\ response.created = 2
    /\ cis = <<>>
    /\ identities = {}

\* C30: whenever a gated mutating request that presented an approval and
\* passed the gate finishes with a success response, with or without dryRun,
\* that approval is CONSUMED and its consumed_at is set.
C30_SuccessConsumes ==
    [][(/\ call'.op = "mutate"
        /\ call'.step \in {"commit", "rollback"}
        /\ call'.approval_id # 0
        /\ response'.status_code = 200) =>
            /\ approvals'[call'.approval_id].status = "CONSUMED"
            /\ approvals'[call'.approval_id].consumed_at # None]_vars

\* the collision rows a step appended
NewCollisions == { collisions'[k] : k \in (Len(collisions) + 1)..Len(collisions') }

\* C31: every collision row a committed reconcile appends with existing = the
\* surviving CI (the rows of the multi-match step) is for a payload identity
\* that was bound to a CI other than the survivor; none is for an identity
\* the survivor itself owns.
C31_NoCollisionForSurvivorsIdentity ==
    [][(/\ call'.op = "ingest"
        /\ ~call'.dry_run
        /\ response'.status_code = 200) =>
          \A row \in NewCollisions :
              row.existing_ci_id = response'.ci =>
                  Owner(identities, [scheme |-> row.scheme, value |-> row.value])
                      # response'.ci]_vars

\* C32: resolving a collision that is already RESOLVED answers 200 and leaves
\* its status, resolution_note and resolved_at as the first resolve set them.
C32_ReResolveIdempotent ==
    [][(/\ call'.op = "resolve"
        /\ call'.collision_id <= Len(collisions)
        /\ collisions[call'.collision_id].status = "RESOLVED") =>
          /\ response'.status_code = 200
          /\ collisions'[call'.collision_id].status = "RESOLVED"
          /\ collisions'[call'.collision_id].resolution_note
                 = collisions[call'.collision_id].resolution_note
          /\ collisions'[call'.collision_id].resolved_at
                 = collisions[call'.collision_id].resolved_at]_vars

\* the audit rows of a given type and CI among rows
EventsFor(rows, event_type, ci_id) ==
    { k \in 1..Len(rows) : rows[k].event_type = event_type /\ rows[k].ci_id = ci_id }

\* C33: a lifecycle run appends exactly one governance.orphan.detected event
\* for every CI that appears in no relationship, whether or not the CI changed
\* lifecycle state in that run, and none for a CI that appears in one.
C33_OneOrphanEventPerOrphan ==
    [][call'.op = "lifecycle" =>
          \A ci_id \in 1..Len(cis) :
              Cardinality(EventsFor(audit_events', "governance.orphan.detected", ci_id))
                  = IF ci_id \in relationship_ci_ids THEN 0 ELSE 1]_vars

\* the audit event type that belongs to a status change of a job
JobEventType(old_status, status) ==
    CASE old_status = "QUEUED" /\ status = "RUNNING" -> "integration.job.started"
      [] old_status = "RUNNING" /\ status = "QUEUED" -> "integration.job.retry_scheduled"
      [] status = "SUCCEEDED" -> "integration.job.succeeded"
      [] status = "FAILED" -> "integration.job.failed"
      [] OTHER -> "none"

\* the per-job counters after one more event of the given type
Counted(counters, event_type) ==
    CASE event_type = "integration.job.started" ->
             [counters EXCEPT !.started = @ + 1]
      [] event_type = "integration.job.retry_scheduled" ->
             [counters EXCEPT !.retry_scheduled = @ + 1]
      [] event_type = "integration.job.succeeded" ->
             [counters EXCEPT !.succeeded = @ + 1]
      [] event_type = "integration.job.failed" ->
             [counters EXCEPT !.failed = @ + 1]

\* C34: under concurrent workers every status change of a sync job is committed
\* with exactly one audit event, of the type of the change (queued on enqueue,
\* started on a claim, retry_scheduled on a retry, succeeded or failed on the
\* terminal change), a job whose status does not change gets no event, and a
\* job that has succeeded has one succeeded event, no failed event and as many
\* retry_scheduled events as it had failed executions (its claims but one).
C34_OneEventPerStatusChange ==
    /\ [][/\ Len(sync_jobs') > Len(sync_jobs) =>
                /\ Len(sync_jobs') = Len(sync_jobs) + 1
                /\ sync_jobs'[Len(sync_jobs')].status = "QUEUED"
                /\ audit_events' = <<[event_type |-> "integration.job.queued", ci_id |-> 0]>>
                /\ job_events'[Len(sync_jobs')]
                       = [started |-> 0, retry_scheduled |-> 0, failed |-> 0, succeeded |-> 0]
          /\ \A j \in 1..Len(sync_jobs) :
                IF sync_jobs'[j].status # sync_jobs[j].status
                THEN /\ JobEventType(sync_jobs[j].status, sync_jobs'[j].status) # "none"
                     /\ audit_events'
                            = <<[event_type |-> JobEventType(sync_jobs[j].status,
                                                             sync_jobs'[j].status),
                                 ci_id |-> 0]>>
                     /\ job_events'[j]
                            = Counted(job_events[j],
                                      JobEventType(sync_jobs[j].status, sync_jobs'[j].status))
                ELSE job_events'[j] = job_events[j]]_vars
    /\ [](\A j \in 1..Len(sync_jobs) :
             sync_jobs[j].status = "SUCCEEDED" =>
                 /\ job_events[j].succeeded = 1
                 /\ job_events[j].failed = 0
                 /\ job_events[j].retry_scheduled = job_events[j].started - 1)

\* a job has failed once, was retried and has succeeded: one retry_scheduled
\* event and one succeeded event
C34_Witness ==
    \E j \in 1..Len(sync_jobs) :
        /\ sync_jobs[j].status = "SUCCEEDED"
        /\ job_events[j].started = 2
        /\ job_events[j].retry_scheduled = 1
        /\ job_events[j].succeeded = 1

\* the audit event type that belongs to the state an approval has moved to
ApprovalEventType(row) ==
    CASE row.status = "PENDING" -> "approval.requested"
      [] row.status = "APPROVED" -> "approval.approved"
      [] row.status = "REJECTED" /\ row.decided_by = Some(ApprovalCleaner) -> "approval.expired"
      [] row.status = "REJECTED" /\ row.decided_by # Some(ApprovalCleaner) -> "approval.rejected"
      [] row.status = "CONSUMED" -> "approval.consumed"

\* the number of audit rows of a type among rows
CountEvents(rows, event_type) ==
    Cardinality({ k \in 1..Len(rows) : rows[k].event_type = event_type })

\* C35: every transaction that changes the state of an approval commits exactly
\* one audit event of the matching type: approval.requested with the new row,
\* approval.approved, approval.rejected, approval.expired for the sweep that
\* expired it (the sweep of create_approval commits before the create does),
\* and approval.consumed when the gate's update is committed.
C35_OneEventPerApprovalChange ==
    [][/\ Len(approvals') > Len(approvals) =>
              CountEvents(audit_events', "approval.requested") = 1
       /\ \A a \in 1..Len(approvals) :
              approvals'[a].status # approvals[a].status =>
                  \/ CountEvents(audit_events', ApprovalEventType(approvals'[a])) = 1
                  \/ /\ ApprovalEventType(approvals'[a]) = "approval.expired"
                     /\ call'.op = "create"]_vars

\* C36: an approve or reject request that loads an approval whose expires_at
\* is at or before the current instant is refused with 409, and no step moves
\* such an approval to APPROVED or writes an approver into decided_by of a
\* row the request found expired.
C36_ExpiredNeverDecided ==
    [][(/\ call'.op \in {"approve", "reject"}
        /\ call'.step = "read"
        /\ requests[call'.slot] # Idle
        /\ requests[call'.slot].pc = "read"
        /\ call'.approval_id <= Len(approvals)
        /\ approvals[call'.approval_id].expires_at <= now) =>
          /\ response'.status_code = 409
          /\ requests'[call'.slot] = Idle
          /\ approvals' = approvals]_vars

\* the rows and watermarks a job's run session can write
JobWrites == <<cis, identities, collisions, sync_state>>

\* C37: the execution of a job that raises, or of a dry-run job, commits none
\* of the CIs, identities, collisions, audit rows and watermarks its session
\* wrote, and leaves the job row alone; the job's status change is committed
\* by a later transaction, together with exactly one integration.job.* audit
\* row and nothing else.
C37_JobWritesNotCommitted ==
    [][/\ (/\ call'.op = "worker"
           /\ call'.step = "executed"
           /\ workers[call'.worker].pc = "run"
           /\ (call'.raised \/ call'.dry_run)) =>
              /\ JobWrites' = JobWrites
              /\ audit_events' = audit_events
              /\ sync_jobs' = sync_jobs
              /\ job_events' = job_events
              /\ workers'[call'.worker].pc = "complete"
              /\ workers'[call'.worker].succeeded = ~call'.raised
       /\ (/\ call'.op = "worker"
           /\ call'.step = "complete"
           /\ workers[call'.worker].pc = "complete") =>
              /\ JobWrites' = JobWrites
              /\ sync_jobs'[call'.job_id].status # "RUNNING"
              /\ sync_jobs[call'.job_id].status = "RUNNING"
              /\ Len(audit_events') = 1
              /\ audit_events'[1].event_type
                     = JobEventType("RUNNING", sync_jobs'[call'.job_id].status)]_vars

\* the execution of a job has raised after its session had reconciled
\* payloads: the store holds no CI, the job is still RUNNING and the worker is
\* about to record the failure
C37_Witness ==
    /\ call.op = "worker"
    /\ call.step = "executed"
    /\ call.raised
    /\ call.written
    /\ cis = <<>>
    /\ identities = {}
    /\ sync_jobs[call.job_id].status = "RUNNING"
    /\ workers[call.worker].pc = "complete"
    /\ ~workers[call.worker].succeeded

\* C38: under every interleaving of the workers the stored attempt_count of a
\* job is the number of times it was claimed, every successful claim raises it
\* by exactly one, no job is claimed more than max_attempts times, and a job is
\* claimed only at or after its current next_run_at.
C38_AttemptCountCountsClaims ==
    /\ [](\A j \in 1..Len(sync_jobs) :
             /\ sync_jobs[j].attempt_count = job_events[j].started
             /\ job_events[j].started <= sync_jobs[j].max_attempts)
    /\ [][\A j \in 1..Len(sync_jobs) :
             (sync_jobs[j].status = "QUEUED" /\ sync_jobs'[j].status = "RUNNING") =>
                 /\ sync_jobs'[j].attempt_count = sync_jobs[j].attempt_count + 1
                 /\ sync_jobs[j].next_run_at <= now]_vars

\* the CIs that own no identity
WithoutIdentity == { c \in 1..Len(cis) : \A r \in identities : r.ci_id # c }

\* C39: every CI owns at least one identity, and an item whose identity list is
\* empty is refused, so that it never creates a CI.
C39_EveryCiHasIdentity ==
    /\ [](WithoutIdentity = {})
    /\ [][(/\ call'.op = "ingest"
           /\ "raw" \notin DOMAIN call'
           /\ call'.payload.identities = <<>>) => response'.status_code \in {409, 422}]_vars

\* the threads of a loop that have not returned
Running(target) == { t \in 1..MaxThreads : threads[t].target = target /\ is_alive(t) }

\* C40: at every instant at most one thread runs _worker_loop and at most one
\* runs _scheduler_loop, whatever the sequence of start_sync_worker and
\* stop_sync_worker calls and whether or not a join timed out.
C40_OneLoopEach ==
    /\ Cardinality(Running("_worker_loop")) <= 1
    /\ Cardinality(Running("_scheduler_loop")) <= 1

====
